---------------------------- MODULE Spec2Model ----------------------------
(***************************************************************************)
(* Model of the shop-analytics core: the cart, checkout and validation     *)
(* transforms of core/transforms.py, the report folds of                   *)
(* Analytics_Service/report.py, the category recursion of                  *)
(* core/recursion.py, the event bus of core/frp.py and the Maybe / Either  *)
(* types of core/ftypes.py.                                                *)
(*                                                                         *)
(* Python values are modelled as follows.                                  *)
(*   tuple / list        -> sequence                                       *)
(*   frozen dataclass    -> record with the dataclass's fields             *)
(*   dict                -> sequence of <<key, value>> pairs in insertion  *)
(*                          order (Python dicts keep insertion order and   *)
(*                          the reports depend on it)                      *)
(*   dict compared by ==  -> function on its key set (core/frp.py)         *)
(*   None / falsy default-> the empty sequence <<>>                        *)
(*   raised exception    -> a record [raised |-> <exception name>]         *)
(***************************************************************************)
EXTENDS Integers, Sequences, FiniteSets, TLC

VARIABLES
    cart,       \* the Cart value the cart transforms are applied to
    hist,       \* the last calls of add_to_cart / remove_from_cart, oldest first
    products,   \* the product catalog (Tuple[Product, ...])
    placed,     \* the checkout calls made so far, each with its return value
    sales,      \* the outcome of total_sales over the checkout returns
    orders,     \* the order sequence handed to the reports
    report,     \* the report calls made on orders, each with its return value
    categories, \* the category tuple handed to the recursive functions
    root_id,    \* the root id handed to the recursive functions
    subtree,    \* the call made on categories, with its return value
    buses,      \* the EventBus objects created so far, oldest first
    shop_state, \* the state value threaded through publish
    published,  \* the last call made on a bus, with its return value
    monad,      \* the Maybe or Either value a method is called on
    purchase,   \* the Order handed to validate_order
    stock,      \* the stock dict handed to validate_order
    answer,     \* the last Maybe / Either / validate_order call, with its return
    job,        \* the async wrapper being awaited, with its arguments
    tasks,      \* the units of work handed to asyncio.gather, in input order
    finished,   \* the indexes of the tasks that are done, in completion order
    outcome     \* what the await of the wrapper gave its caller

coreVars == <<cart, hist, products, placed, sales, orders, report>>
categoryVars == <<categories, root_id, subtree>>
busVars == <<buses, shop_state, published>>
ftypesVars == <<monad, purchase, stock, answer>>
asyncVars == <<job, tasks, finished, outcome>>

vars == <<coreVars, categoryVars, busVars, ftypesVars, asyncVars>>

-----------------------------------------------------------------------------
(* Bounds of the model *)

MaxQty == 3         \* largest quantity a cart line may reach
MaxItems == 2       \* longest item list drawn as an input
MaxPlaced == 2      \* checkout calls in one behaviour
MaxOrders == 3      \* longest order sequence handed to the reports
MaxLineOrders == 2  \* longest order sequence with line items
MaxLines == 3       \* most line items in one order sequence
MaxK == 2           \* largest k asked of a top-k report

PIDS == {"p1", "p2", "p3"}
USERS == {"u1", "u2"}
QtyArgs == {-1, 0, 1, 2}    \* qty arguments of add_to_cart, qty <= 0 included
TS == {"2025-09-15T12:00:00", "2025-09-15T13:00:00"}

None == <<>>

\* None in a slot whose other values are strings (Category.parent_id,
\* state["last_event"]): a string that is no id and no event name, so that ==
\* compares it with a string as Python does
NoneStr == "None"

\* the variables a specification does not use stay at these values
NoCategories == categories = <<>> /\ root_id = "" /\ subtree = None
NoBuses == buses = <<>> /\ shop_state = None /\ published = None
NoFtypes == monad = None /\ purchase = None /\ stock = None /\ answer = None
NoAsync == job = None /\ tasks = <<>> /\ finished = <<>> /\ outcome = None

-----------------------------------------------------------------------------
(* Generic helpers for Python built-ins *)

\* tuple(filter(pred, seq)) and comprehensions with an if clause are SelectSeq;
\* each functools.reduce is written out as a recursive left fold.

\* all sequences over S of length at most n
SeqUpTo(S, n) == UNION {[1..k -> S] : k \in 0..n}

-----------------------------------------------------------------------------
(* core/domain.py *)

Cart(id, user_id, items) == [id |-> id, user_id |-> user_id, items |-> items]

Order(id, user_id, items, total, ts, status) ==
    [id |-> id, user_id |-> user_id, items |-> items, total |-> total,
     ts |-> ts, status |-> status]

Product(id, title, price, category_id, tags) ==
    [id |-> id, title |-> title, price |-> price, category_id |-> category_id,
     tags |-> tags]

-----------------------------------------------------------------------------
(* core/ftypes.py *)

\* Maybe.some(value) for a value that is not None (a price); Maybe(value)
\* further down is the constructor for any value
Maybe_some(value) == [is_none |-> FALSE, value |-> value]
Maybe_nothing == [is_none |-> TRUE]
Maybe_get_or_else(m, default) == IF ~m.is_none THEN m.value ELSE default

Either_left(value) == [is_left |-> TRUE, value |-> value]
Either_right(value) == [is_left |-> FALSE, value |-> value]
Either_get_or_else(e, default) == IF ~e.is_left THEN e.value ELSE default

-----------------------------------------------------------------------------
(* core/transforms.py: cart operations *)

add_to_cart_always_appends(c, product_id, qty) ==
    IF qty <= 0 THEN c
    ELSE Cart(c.id, c.user_id, Append(c.items, <<product_id, qty>>))

\* next((item for item in items if item[0] == product_id), None)
RECURSIVE next_item(_, _)
next_item(items, product_id) ==
    IF items = <<>> THEN None
    ELSE IF Head(items)[1] = product_id THEN Head(items)
         ELSE next_item(Tail(items), product_id)

add_to_cart_overwrites(c, product_id, qty) ==
    IF qty <= 0 THEN c
    ELSE LET existing_item == next_item(c.items, product_id)
         IN  IF existing_item # None
             THEN Cart(c.id, c.user_id,
                       [i \in DOMAIN c.items |->
                           IF c.items[i][1] = product_id
                           THEN <<c.items[i][1], qty>>
                           ELSE c.items[i]])
             ELSE Cart(c.id, c.user_id, Append(c.items, <<product_id, qty>>))

add_to_cart(c, product_id, qty) ==
    IF qty <= 0 THEN c
    ELSE LET existing_item == next_item(c.items, product_id)
         IN  IF existing_item # None   \* a (pid, q) pair is always truthy
             THEN Cart(c.id, c.user_id,
                       [i \in DOMAIN c.items |->
                           IF c.items[i][1] = product_id
                           THEN <<c.items[i][1], c.items[i][2] + qty>>
                           ELSE c.items[i]])
             ELSE Cart(c.id, c.user_id, Append(c.items, <<product_id, qty>>))

remove_from_cart_first_only(c, product_id) ==
    LET hits == {i \in DOMAIN c.items : c.items[i][1] = product_id}
        first == IF hits = {} THEN 0 ELSE CHOOSE i \in hits : \A j \in hits : i <= j
    IN  Cart(c.id, c.user_id,
             [i \in 1..(Len(c.items) - (IF first = 0 THEN 0 ELSE 1)) |->
                 IF first = 0 \/ i < first THEN c.items[i] ELSE c.items[i + 1]])

remove_from_cart(c, product_id) ==
    Cart(c.id, c.user_id, SelectSeq(c.items, LAMBDA item : item[1] # product_id))

-----------------------------------------------------------------------------
(* The cart as a state machine: callers thread the returned Cart *)

Call(op, product_id, qty, arg, ret) ==
    [op |-> op, product_id |-> product_id, qty |-> qty, arg |-> arg, ret |-> ret]

\* keep the two most recent calls
Log(h, call) == IF Len(h) < 2 THEN Append(h, call) ELSE <<h[2], call>>

QtyWithin(c) == \A i \in DOMAIN c.items : c.items[i][2] <= MaxQty

AddToCart(p, q) ==
    LET ret == add_to_cart(cart, p, q)
    IN  /\ QtyWithin(ret)
        /\ cart' = ret
        /\ hist' = Log(hist, Call("add_to_cart", p, q, cart, ret))
        /\ UNCHANGED <<products, placed, sales, orders, report, categoryVars, busVars, ftypesVars, asyncVars>>

RemoveFromCart(p) ==
    LET ret == remove_from_cart(cart, p)
    IN  /\ cart' = ret
        /\ hist' = Log(hist, Call("remove_from_cart", p, 0, cart, ret))
        /\ UNCHANGED <<products, placed, sales, orders, report, categoryVars, busVars, ftypesVars, asyncVars>>

NextCart ==
    \/ \E p \in PIDS, q \in QtyArgs : AddToCart(p, q)
    \/ \E p \in PIDS : RemoveFromCart(p)

\* Cart(id="c1", user_id=..., items=())
Init ==
    /\ cart = Cart("c1", "u1", <<>>)
    /\ hist = <<>>
    /\ products = <<>>
    /\ placed = <<>>
    /\ sales = None
    /\ orders = <<>>
    /\ report = <<>>
    /\ NoCategories
    /\ NoBuses
    /\ NoFtypes
    /\ NoAsync

Next == NextCart

Spec == Init /\ [][Next]_vars

\* any Cart a caller may construct directly, duplicate product ids included
ItemInputs == SeqUpTo(PIDS \X (1..2), MaxItems)

InitAnyCart ==
    /\ cart \in {Cart("c1", "u1", items) : items \in ItemInputs}
    /\ hist = <<>>
    /\ products = <<>>
    /\ placed = <<>>
    /\ sales = None
    /\ orders = <<>>
    /\ report = <<>>
    /\ NoCategories
    /\ NoBuses
    /\ NoFtypes
    /\ NoAsync

SpecAnyCart == InitAnyCart /\ [][NextCart]_vars

-----------------------------------------------------------------------------
(* Claims about the cart transforms *)

ProductIds(items) == {items[i][1] : i \in DOMAIN items}

LastCall == hist[Len(hist)]

\* C1: starting from the empty cart, after any sequence of add_to_cart (any
\* integer qty, qty <= 0 included) and remove_from_cart calls, no two pairs of
\* the cart's items share a product_id.
C1_NoDuplicateProductIds ==
    \A i, j \in DOMAIN cart.items :
        cart.items[i][1] = cart.items[j][1] => i = j

\* an add of a product already in a cart of several lines has just merged
C1_Witness ==
    /\ hist # <<>>
    /\ LastCall.op = "add_to_cart"
    /\ LastCall.qty > 0
    /\ LastCall.product_id \in ProductIds(LastCall.arg.items)
    /\ Len(cart.items) >= 2

\* the pairs of items whose product id is not p, in their order
KeptIndexes(items, p) == {i \in DOMAIN items : items[i][1] # p}

IsItemsWithout(result, items, p) ==
    /\ Len(result) = Cardinality(KeptIndexes(items, p))
    /\ \A i \in KeptIndexes(items, p) :
          result[Cardinality({j \in KeptIndexes(items, p) : j <= i})] = items[i]

AddThenRemove ==
    /\ Len(hist) = 2
    /\ hist[1].op = "add_to_cart"
    /\ hist[1].qty > 0
    /\ hist[2].op = "remove_from_cart"
    /\ hist[2].product_id = hist[1].product_id

\* C5: for every cart C, product id p and n > 0,
\* remove_from_cart(add_to_cart(C, p, n), p) has no pair with product id p and
\* keeps every other pair of C with its quantity and relative order.
C5_RemoveAfterAdd ==
    AddThenRemove =>
        /\ hist[2].arg = hist[1].ret
        /\ hist[1].product_id \notin ProductIds(cart.items)
        /\ IsItemsWithout(cart.items, hist[1].arg.items, hist[1].product_id)
        /\ cart.id = hist[1].arg.id
        /\ cart.user_id = hist[1].arg.user_id

\* p was already in C (twice), between other lines, when it was added and removed
C5_Witness ==
    /\ AddThenRemove
    /\ Cardinality({i \in DOMAIN hist[1].arg.items :
                       hist[1].arg.items[i][1] = hist[1].product_id}) = 2
    /\ cart.items = <<>>

\* p was new to a cart C of two other lines when it was added and removed
C5_WitnessOthersKept ==
    /\ AddThenRemove
    /\ Len(hist[1].arg.items) = 2
    /\ Len(cart.items) = 2
    /\ hist[1].arg.items[1][1] # hist[1].arg.items[2][1]

AddCallOk(call) ==
    LET p == call.product_id
        qty == call.qty
        before == call.arg.items
        after == call.ret.items
    IN  /\ call.ret.id = call.arg.id
        /\ call.ret.user_id = call.arg.user_id
        /\ qty <= 0 => call.ret = call.arg
        /\ (qty > 0 /\ p \in ProductIds(before)) =>
              /\ Len(after) = Len(before)
              /\ \A i \in DOMAIN before :
                    /\ after[i][1] = before[i][1]
                    /\ after[i][2] = before[i][2] + (IF before[i][1] = p THEN qty ELSE 0)
        /\ (qty > 0 /\ p \notin ProductIds(before)) =>
              /\ Len(after) = Len(before) + 1
              /\ \A i \in DOMAIN before : after[i] = before[i]
              /\ after[Len(after)] = <<p, qty>>

\* C6: add_to_cart(cart, p, qty) returns the input cart when qty <= 0; when
\* qty > 0 and p is in the cart it keeps the sequence of product ids and
\* raises only p's quantity by qty; when qty > 0 and p is absent it returns
\* the input items followed by (p, qty).
C6_AddToCart ==
    \A n \in DOMAIN hist :
        hist[n].op = "add_to_cart" => AddCallOk(hist[n])

\* a no-op add (qty <= 0) on a non-empty cart, then a merge into the second
\* of two lines
C6_Witness ==
    /\ Len(hist) = 2
    /\ hist[1].op = "add_to_cart" /\ hist[1].qty <= 0 /\ hist[1].arg.items # <<>>
    /\ hist[2].op = "add_to_cart" /\ hist[2].qty > 0
    /\ Len(hist[2].arg.items) = 2
    /\ hist[2].arg.items[2][1] = hist[2].product_id
    /\ hist[2].arg.items[1][1] # hist[2].product_id

\* an append of an absent product to a non-empty cart
C6_WitnessAppend ==
    /\ hist # <<>>
    /\ LastCall.op = "add_to_cart" /\ LastCall.qty > 0
    /\ LastCall.arg.items # <<>>
    /\ LastCall.product_id \notin ProductIds(LastCall.arg.items)

-----------------------------------------------------------------------------
(* core/transforms.py: checkout and total_sales *)

\* f"Product '{pid}' not found": the text around the formatted product id
NotFoundError(pid) == [error |-> <<"Product '", pid, "' not found">>]

\* next((p for p in products if p.id == pid), None)
RECURSIVE next_product(_, _)
next_product(ps, pid) ==
    IF ps = <<>> THEN None
    ELSE IF Head(ps).id = pid THEN Head(ps)
         ELSE next_product(Tail(ps), pid)

get_price(ps, pid) ==
    LET found == next_product(ps, pid)
    IN  IF found # None THEN Maybe_some(found.price) ELSE Maybe_nothing

accumulate_total_keeps_folding(ps, acc, item) ==
    LET pid == item[1]
        qty == item[2]
        price_maybe == get_price(ps, pid)
    IN  IF price_maybe.is_none
        THEN Either_left(NotFoundError(pid))
        ELSE Either_right(Either_get_or_else(acc, 0)
                            + Maybe_get_or_else(price_maybe, 0) * qty)

accumulate_total_unit_price(ps, acc, item) ==
    IF acc.is_left THEN acc
    ELSE LET pid == item[1]
             price_maybe == get_price(ps, pid)
         IN  IF price_maybe.is_none
             THEN Either_left(NotFoundError(pid))
             ELSE Either_right(Either_get_or_else(acc, 0)
                                 + Maybe_get_or_else(price_maybe, 0))

accumulate_total(ps, acc, item) ==
    IF acc.is_left THEN acc
    ELSE LET pid == item[1]
             qty == item[2]
             price_maybe == get_price(ps, pid)
         IN  IF price_maybe.is_none
             THEN Either_left(NotFoundError(pid))
             ELSE Either_right(Either_get_or_else(acc, 0)
                                 + Maybe_get_or_else(price_maybe, 0) * qty)

\* reduce(accumulate_total, items, acc)
RECURSIVE reduce_total(_, _, _)
reduce_total(ps, items, acc) ==
    IF items = <<>> THEN acc
    ELSE reduce_total(ps, Tail(items), accumulate_total(ps, acc, Head(items)))

\* uuid stands for str(uuid.uuid4()), a value no earlier order carries
checkout(c, ts, ps, uuid) ==
    LET total_result == reduce_total(ps, c.items, Either_right(0))
    IN  IF total_result.is_left
        THEN total_result
        ELSE Either_right(Order(uuid, c.user_id, c.items,
                                Either_get_or_else(total_result, 0), ts, "paid"))

Return(value) == [raised |-> "", value |-> value]
Raise(exception) == [raised |-> exception]

\* reduce(lambda acc, o: acc + o.total, orders, acc)
RECURSIVE reduce_order_totals(_, _)
reduce_order_totals(os, acc) ==
    IF os = <<>> THEN acc
    ELSE reduce_order_totals(Tail(os), acc + Head(os).total)

\* reading .total of a value without that attribute raises AttributeError
total_sales(os) ==
    IF \E i \in DOMAIN os : "total" \notin DOMAIN os[i]
    THEN Raise("AttributeError")
    ELSE Return(reduce_order_totals(os, 0))

-----------------------------------------------------------------------------
(* Checkout of a cart against a catalog, and total_sales over the returns *)

Catalogs ==
    { <<>>,
      << Product("p1", "Laptop", 100, "c1", <<>>),
         Product("p2", "Sticker", 0, "c1", <<>>) >>,
      << Product("p3", "Mouse", 70, "c2", <<>>),
         Product("p1", "Laptop", 100, "c1", <<>>),
         Product("p2", "Phone", 250, "c1", <<>>) >> }

Checkout(ts) ==
    /\ Len(placed) < MaxPlaced
    /\ placed' = Append(placed,
                        [cart |-> cart, ts |-> ts,
                         ret |-> checkout(cart, ts, products, Len(placed) + 1)])
    /\ UNCHANGED <<cart, hist, products, sales, orders, report, categoryVars, busVars, ftypesVars, asyncVars>>

\* total_sales((order1, order2, ...)) over what checkout returned
TotalSales ==
    LET arg == [i \in DOMAIN placed |-> placed[i].ret]
    IN  /\ sales' = [arg |-> arg, ret |-> total_sales(arg)]
        /\ UNCHANGED <<cart, hist, products, placed, orders, report, categoryVars, busVars, ftypesVars, asyncVars>>

InitCheckout ==
    /\ cart \in {Cart("c1", u, items) : u \in USERS, items \in ItemInputs}
    /\ hist = <<>>
    /\ products \in Catalogs
    /\ placed = <<>>
    /\ sales = None
    /\ orders = <<>>
    /\ report = <<>>
    /\ NoCategories
    /\ NoBuses
    /\ NoFtypes
    /\ NoAsync

NextCheckout ==
    \/ \E ts \in TS : Checkout(ts)
    \/ TotalSales

SpecCheckout == InitCheckout /\ [][NextCheckout]_vars

-----------------------------------------------------------------------------
(* Claims about checkout *)

CatalogIds(ps) == {ps[i].id : i \in DOMAIN ps}

MissingLines(items, ps) == {i \in DOMAIN items : items[i][1] \notin CatalogIds(ps)}

\* the catalogs carry each id once
PriceOf(ps, pid) == (CHOOSE p \in {ps[i] : i \in DOMAIN ps} : p.id = pid).price

RECURSIVE LinesTotal(_, _, _)
LinesTotal(items, ps, n) ==
    IF n = 0 THEN 0
    ELSE LinesTotal(items, ps, n - 1) + PriceOf(ps, items[n][1]) * items[n][2]

\* C2: if a product_id of the cart's items is absent from the catalog,
\* checkout returns a Left whose error names the first such product_id in
\* cart order, and never a Right, whatever lines before or after it resolve.
C2_CheckoutMissingProduct ==
    \A n \in DOMAIN placed :
        LET items == placed[n].cart.items
            missing == MissingLines(items, products)
        IN  missing # {} =>
                LET first == CHOOSE i \in missing : \A j \in missing : i <= j
                IN  /\ placed[n].ret.is_left
                    /\ placed[n].ret.value = NotFoundError(items[first][1])

\* a checkout has failed on a cart of two different missing products
C2_Witness ==
    \E n \in DOMAIN placed :
        /\ placed[n].ret.is_left
        /\ Len(placed[n].cart.items) = 2
        /\ placed[n].cart.items[1][1] # placed[n].cart.items[2][1]
        /\ MissingLines(placed[n].cart.items, products) = {1, 2}

RECURSIVE PlacedTotal(_)
PlacedTotal(n) ==
    IF n = 0 THEN 0
    ELSE PlacedTotal(n - 1)
         + LinesTotal(placed[n].cart.items, products, Len(placed[n].cart.items))

\* C4: for a cart whose products all exist in the catalog, the value returned
\* by checkout is itself an Order record: it exposes total = sum of
\* price * quantity and status = "paid" directly, and total_sales over a tuple
\* of checkout results is the sum of those totals.
C4_CheckoutReturnsOrder ==
    /\ \A n \in DOMAIN placed :
          LET c == placed[n].cart
          IN  MissingLines(c.items, products) = {} =>
                  /\ {"total", "status"} \subseteq DOMAIN placed[n].ret
                  /\ placed[n].ret.total = LinesTotal(c.items, products, Len(c.items))
                  /\ placed[n].ret.status = "paid"
    /\ (sales # None /\ \A n \in DOMAIN placed :
                           MissingLines(placed[n].cart.items, products) = {}) =>
          /\ sales.ret.raised = ""
          /\ sales.ret.value = PlacedTotal(Len(sales.arg))

-----------------------------------------------------------------------------
(* Python dicts, as sequences of <<key, value>> pairs in insertion order *)

dict_has(d, key) == \E i \in DOMAIN d : d[i][1] = key

\* d.get(key, default)
dict_get(d, key, default) ==
    IF dict_has(d, key)
    THEN d[CHOOSE i \in DOMAIN d : d[i][1] = key][2]
    ELSE default

\* {**d, key: value}: an existing key keeps its place, a new key goes last
dict_set(d, key, value) ==
    IF dict_has(d, key)
    THEN [i \in DOMAIN d |-> IF d[i][1] = key THEN <<key, value>> ELSE d[i]]
    ELSE Append(d, <<key, value>>)

\* where sorted(..., reverse=True) puts x among pairs already in descending
\* order of value: after every pair whose value is not smaller (the sort is
\* stable, so equal values keep their input order)
RECURSIVE insert_descending(_, _)
insert_descending(sorted, x) ==
    IF sorted = <<>> THEN <<x>>
    ELSE IF Head(sorted)[2] >= x[2]
         THEN <<Head(sorted)>> \o insert_descending(Tail(sorted), x)
         ELSE <<x>> \o sorted

\* sorted(pairs, key=lambda x: x[1], reverse=True)
RECURSIVE sorted_by_value_reverse(_, _)
sorted_by_value_reverse(pairs, sorted) ==
    IF pairs = <<>> THEN sorted
    ELSE sorted_by_value_reverse(Tail(pairs), insert_descending(sorted, Head(pairs)))

\* seq[:k]
slice_to(seq, k) ==
    IF k >= 0
    THEN SubSeq(seq, 1, IF k < Len(seq) THEN k ELSE Len(seq))
    ELSE SubSeq(seq, 1, IF Len(seq) + k > 0 THEN Len(seq) + k ELSE 0)

\* a float quotient num / den, kept as the two integers
Ratio(num, den) == [num |-> num, den |-> den]

-----------------------------------------------------------------------------
(* Analytics_Service/report.py: sales reports *)

is_paid(o) == o.status = "paid"

\* reduce(lambda acc, o: acc + o.total, orders, acc)
RECURSIVE reduce_totals(_, _)
reduce_totals(os, acc) ==
    IF os = <<>> THEN acc
    ELSE reduce_totals(Tail(os), acc + Head(os).total)

average_order_value(os) ==
    LET paid_orders == SelectSeq(os, is_paid)
    IN  IF paid_orders = <<>> THEN Ratio(0, 1)
        ELSE Ratio(reduce_totals(paid_orders, 0), Len(paid_orders))

sales_summary_refunds_every_unpaid(os) ==
    LET paid == SelectSeq(os, is_paid)
        refunded == SelectSeq(os, LAMBDA o : o.status # "paid")
        cancelled == SelectSeq(os, LAMBDA o : o.status = "cancelled")
        total_paid == reduce_totals(paid, 0)
        total_refunded == reduce_totals(refunded, 0)
    IN  [total_orders |-> Len(os),
         paid_orders |-> Len(paid),
         refunded_orders |-> Len(refunded),
         cancelled_orders |-> Len(cancelled),
         total_revenue |-> total_paid,
         total_refunded |-> total_refunded,
         net_revenue |-> total_paid - total_refunded,
         average_order_value |-> average_order_value(os)]

sales_summary(os) ==
    LET paid == SelectSeq(os, is_paid)
        refunded == SelectSeq(os, LAMBDA o : o.status = "refunded")
        cancelled == SelectSeq(os, LAMBDA o : o.status = "cancelled")
        total_paid == reduce_totals(paid, 0)
        total_refunded == reduce_totals(refunded, 0)
    IN  [total_orders |-> Len(os),
         paid_orders |-> Len(paid),
         refunded_orders |-> Len(refunded),
         cancelled_orders |-> Len(cancelled),
         total_revenue |-> total_paid,
         total_refunded |-> total_refunded,
         net_revenue |-> total_paid - total_refunded,
         average_order_value |-> average_order_value(os)]

-----------------------------------------------------------------------------
(* Analytics_Service/report.py: bestsellers_report *)

\* reduce(add_item, order.items, acc)
RECURSIVE reduce_add_item(_, _)
reduce_add_item(items, acc) ==
    IF items = <<>> THEN acc
    ELSE LET pid == Head(items)[1]
             qty == Head(items)[2]
         IN  reduce_add_item(Tail(items), dict_set(acc, pid, dict_get(acc, pid, 0) + qty))

accumulate_product_qty(acc, order) ==
    IF order.status # "paid" THEN acc
    ELSE reduce_add_item(order.items, acc)

\* reduce(accumulate_product_qty, orders, acc)
RECURSIVE reduce_product_qty(_, _)
reduce_product_qty(os, acc) ==
    IF os = <<>> THEN acc
    ELSE reduce_product_qty(Tail(os), accumulate_product_qty(acc, Head(os)))

\* {p.id: p for p in products}
RECURSIVE products_by_id(_, _)
products_by_id(ps, acc) ==
    IF ps = <<>> THEN acc
    ELSE products_by_id(Tail(ps), dict_set(acc, Head(ps).id, Head(ps)))

BestsellerEntry(pid, product_qty, products_dict) ==
    LET known == dict_has(products_dict, pid)
    IN  [product_id |-> pid,
         title |-> IF known THEN dict_get(products_dict, pid, None).title ELSE "Unknown",
         price |-> IF known THEN dict_get(products_dict, pid, None).price ELSE 0,
         quantity_sold |-> dict_get(product_qty, pid, 0),
         revenue |-> IF known
                     THEN dict_get(product_qty, pid, 0)
                            * dict_get(products_dict, pid, None).price
                     ELSE 0]

bestsellers_report_drops_before_cut(os, ps, k) ==
    LET product_qty == reduce_product_qty(os, <<>>)
        products_dict == products_by_id(ps, <<>>)
        ranked == SelectSeq(sorted_by_value_reverse(product_qty, <<>>),
                            LAMBDA pair : dict_has(products_dict, pair[1]))
        top_ids == slice_to([i \in DOMAIN ranked |-> ranked[i][1]], k)
    IN  [i \in DOMAIN top_ids |-> BestsellerEntry(top_ids[i], product_qty, products_dict)]

bestsellers_report(os, ps, k) ==
    LET product_qty == reduce_product_qty(os, <<>>)
        \* sorted(product_qty.keys(), key=product_qty.get, reverse=True)[:k]
        ranked == sorted_by_value_reverse(product_qty, <<>>)
        top_ids == slice_to([i \in DOMAIN ranked |-> ranked[i][1]], k)
        products_dict == products_by_id(ps, <<>>)
        kept == SelectSeq(top_ids, LAMBDA pid : dict_has(products_dict, pid))
    IN  [i \in DOMAIN kept |-> BestsellerEntry(kept[i], product_qty, products_dict)]

-----------------------------------------------------------------------------
(* Analytics_Service/report.py: customer reports *)

accumulate_user_totals(acc, order) ==
    IF order.status # "paid" THEN acc
    ELSE dict_set(acc, order.user_id, dict_get(acc, order.user_id, 0) + order.total)

\* reduce(accumulate_user_totals, orders, acc)
RECURSIVE reduce_user_totals(_, _)
reduce_user_totals(os, acc) ==
    IF os = <<>> THEN acc
    ELSE reduce_user_totals(Tail(os), accumulate_user_totals(acc, Head(os)))

customer_lifetime_value(os) == reduce_user_totals(os, <<>>)

count_orders_of_any_status(acc, order) ==
    dict_set(acc, order.user_id, dict_get(acc, order.user_id, 0) + 1)

count_orders(acc, order) ==
    IF order.status # "paid" THEN acc
    ELSE dict_set(acc, order.user_id, dict_get(acc, order.user_id, 0) + 1)

\* reduce(count_orders, orders, acc)
RECURSIVE reduce_count_orders(_, _)
reduce_count_orders(os, acc) ==
    IF os = <<>> THEN acc
    ELSE reduce_count_orders(Tail(os), count_orders(acc, Head(os)))

top_customers_report(os, k) ==
    LET ltv == customer_lifetime_value(os)
        top_users == slice_to(sorted_by_value_reverse(ltv, <<>>), k)
        order_counts == reduce_count_orders(os, <<>>)
    IN  [i \in DOMAIN top_users |->
            LET uid == top_users[i][1]
                total == top_users[i][2]
            IN  [user_id |-> uid,
                 total_spent |-> total,
                 order_count |-> dict_get(order_counts, uid, 0),
                 avg_order |-> IF dict_get(order_counts, uid, 0) > 0
                               THEN total \div dict_get(order_counts, uid, 0)
                               ELSE 0]]

count_user_orders_of_any_status(acc, order) ==
    dict_set(acc, order.user_id, dict_get(acc, order.user_id, 0) + 1)

count_user_orders(acc, order) ==
    IF order.status # "paid" THEN acc
    ELSE dict_set(acc, order.user_id, dict_get(acc, order.user_id, 0) + 1)

\* reduce(count_user_orders, orders, acc)
RECURSIVE reduce_count_user_orders(_, _)
reduce_count_user_orders(os, acc) ==
    IF os = <<>> THEN acc
    ELSE reduce_count_user_orders(Tail(os), count_user_orders(acc, Head(os)))

retention_rate(os) ==
    LET user_orders == reduce_count_user_orders(os, <<>>)
        total_users == Len(user_orders)
        repeat_users == Cardinality({i \in DOMAIN user_orders : user_orders[i][2] > 1})
    IN  [total_customers |-> total_users,
         repeat_customers |-> repeat_users,
         retention_rate |-> IF total_users > 0
                            THEN Ratio(repeat_users * 100, total_users)
                            ELSE Ratio(0, 1),
         first_time_customers |-> total_users - repeat_users]

-----------------------------------------------------------------------------
(* The reports applied to an order sequence *)

\* orders that differ in user, status and total, without line items
OrderInputs ==
    {Order("o", u, <<>>, total, "2025-06-22T10:00:00", status) :
        u \in USERS, total \in {0, 3, 4}, status \in {"paid", "refunded", "cancelled"}}

\* the line items the orders are made of
Lines == {<<"p1", 1>>, <<"p2", 1>>, <<"p2", 2>>, <<"p3", 2>>}

\* order sequences that differ in their line items and status: at most m
\* orders holding at most t lines together
RECURSIVE LineOrderInputs(_, _)
LineOrderInputs(m, t) ==
    IF m = 0 THEN {<<>>}
    ELSE {<<>>} \cup
         UNION {
             { <<Order("o", "u1", items, 0, "2025-06-22T10:00:00", status)>> \o rest :
                 status \in {"paid", "refunded"},
                 rest \in LineOrderInputs(m - 1, t - Len(items)) } :
             items \in SeqUpTo(Lines, t) }

\* p3 is sold but not in the catalog
ReportCatalog ==
    << Product("p1", "Laptop", 100, "c1", <<>>),
       Product("p2", "Phone", 300, "c1", <<>>) >>

NoReport == [fn |-> "", k |-> 0, ret |-> <<>>, repeat |-> FALSE, prev |-> <<>>]

\* one report is called on the orders
Called(fn, k, ret) ==
    /\ report = NoReport
    /\ report' = [fn |-> fn, k |-> k, ret |-> ret, repeat |-> FALSE, prev |-> <<>>]
    /\ UNCHANGED <<cart, hist, products, placed, sales, orders, categoryVars, busVars, ftypesVars, asyncVars>>

\* sales_summary may be called a second time on the same orders
SalesSummary ==
    /\ \/ report = NoReport
       \/ report.fn = "sales_summary" /\ ~report.repeat
    /\ report' = [fn |-> "sales_summary", k |-> 0, ret |-> sales_summary(orders),
                  repeat |-> report # NoReport,
                  prev |-> report.ret]
    /\ UNCHANGED <<cart, hist, products, placed, sales, orders, categoryVars, busVars, ftypesVars, asyncVars>>

BestsellersReport(k) == Called("bestsellers_report", k, bestsellers_report(orders, products, k))

TopCustomersReport(k) == Called("top_customers_report", k, top_customers_report(orders, k))

RetentionRate == Called("retention_rate", 0, retention_rate(orders))

InitReport ==
    /\ cart = Cart("c1", "u1", <<>>)
    /\ hist = <<>>
    /\ products = ReportCatalog
    /\ placed = <<>>
    /\ sales = None
    /\ orders \in SeqUpTo(OrderInputs, MaxOrders) \cup LineOrderInputs(MaxLineOrders, MaxLines)
    /\ report = NoReport
    /\ NoCategories
    /\ NoBuses
    /\ NoFtypes
    /\ NoAsync

NextReport ==
    \/ SalesSummary
    \/ \E k \in 0..MaxK : BestsellersReport(k)
    \/ \E k \in 0..MaxK : TopCustomersReport(k)
    \/ RetentionRate

SpecReport == InitReport /\ [][NextReport]_vars

-----------------------------------------------------------------------------
(* Claims about the reports *)

PaidIndexes == {i \in DOMAIN orders : orders[i].status = "paid"}

RECURSIVE TotalOfStatus(_, _)
TotalOfStatus(status, n) ==
    IF n = 0 THEN 0
    ELSE TotalOfStatus(status, n - 1)
         + (IF orders[n].status = status THEN orders[n].total ELSE 0)

\* C7: sales_summary(O) has total_revenue = sum of total over the paid
\* orders, total_refunded = sum of total over the refunded orders,
\* net_revenue = total_revenue - total_refunded, total_orders = length of O,
\* and a second call on the same O returns the same result.
C7_SalesSummary ==
    report.fn = "sales_summary" =>
        /\ report.ret.total_revenue = TotalOfStatus("paid", Len(orders))
        /\ report.ret.total_refunded = TotalOfStatus("refunded", Len(orders))
        /\ report.ret.net_revenue = report.ret.total_revenue - report.ret.total_refunded
        /\ report.ret.total_orders = Len(orders)
        /\ report.repeat => report.ret = report.prev

\* sales_summary has been called twice on paid, refunded and cancelled
\* orders with positive totals
C7_Witness ==
    /\ report.fn = "sales_summary"
    /\ report.repeat
    /\ report.ret.total_revenue > 0
    /\ report.ret.total_refunded > 0
    /\ \E i \in DOMAIN orders : orders[i].status = "cancelled" /\ orders[i].total > 0

\* the line items of the paid orders, as <<order index, item index>>
PaidLines == UNION {{<<i, j>> : j \in DOMAIN orders[i].items} : i \in PaidIndexes}

LineBefore(a, b) == a[1] < b[1] \/ (a[1] = b[1] /\ a[2] < b[2])

SoldIds == {orders[l[1]].items[l[2]][1] : l \in PaidLines}

RECURSIVE SumQty(_, _)
SumQty(pid, lines) ==
    IF lines = {} THEN 0
    ELSE LET l == CHOOSE x \in lines : TRUE
         IN  (IF orders[l[1]].items[l[2]][1] = pid THEN orders[l[1]].items[l[2]][2] ELSE 0)
             + SumQty(pid, lines \ {l})

QtySold(pid) == SumQty(pid, PaidLines)

FirstLine(pid) ==
    CHOOSE l \in PaidLines :
        /\ orders[l[1]].items[l[2]][1] = pid
        /\ \A x \in PaidLines :
              orders[x[1]].items[x[2]][1] = pid => (x = l \/ LineBefore(l, x))

\* a ranks before b: more sold, or as many and seen first
SellsBefore(a, b) ==
    \/ QtySold(a) > QtySold(b)
    \/ QtySold(a) = QtySold(b) /\ LineBefore(FirstLine(a), FirstLine(b))

SalesRank(pid) == Cardinality({x \in SoldIds : SellsBefore(x, pid)})

\* C8: bestsellers_report(orders, products, k), k >= 0, sums quantity per
\* product_id over the line items of paid orders only, ranks the ids by that
\* sum descending with ties in first-seen order, takes the first k ids, then
\* drops the ids not in products; each entry has quantity_sold = that sum and
\* revenue = quantity_sold * price, and the entries are in rank order.
C8_Bestsellers ==
    (report.fn = "bestsellers_report" /\ report.k >= 0) =>
        LET out == report.ret
            expected == {pid \in SoldIds :
                            SalesRank(pid) < report.k /\ pid \in CatalogIds(products)}
        IN  /\ {out[i].product_id : i \in DOMAIN out} = expected
            /\ Len(out) = Cardinality(expected)
            /\ \A i, j \in DOMAIN out :
                  i < j => SellsBefore(out[i].product_id, out[j].product_id)
            /\ \A i \in DOMAIN out :
                  /\ out[i].quantity_sold = QtySold(out[i].product_id)
                  /\ out[i].price = PriceOf(products, out[i].product_id)
                  /\ out[i].revenue = out[i].quantity_sold * out[i].price

\* a catalog product is sold, but the product outside the catalog ranks first
\* for k = 1 and is dropped, leaving no entry; an unpaid order has lines too
C8_Witness ==
    /\ report.fn = "bestsellers_report"
    /\ report.k = 1
    /\ report.ret = <<>>
    /\ SoldIds \cap CatalogIds(products) # {}
    /\ \E i \in DOMAIN orders : orders[i].status # "paid" /\ orders[i].items # <<>>

\* two products tie and the one seen first is the single entry
C8_WitnessTie ==
    /\ report.fn = "bestsellers_report"
    /\ report.k = 1
    /\ Len(report.ret) = 1
    /\ \E pid \in SoldIds \ {report.ret[1].product_id} :
          /\ pid \in CatalogIds(products)
          /\ QtySold(pid) = report.ret[1].quantity_sold

PaidUsers == {orders[i].user_id : i \in PaidIndexes}

RECURSIVE SumTotals(_)
SumTotals(indexes) ==
    IF indexes = {} THEN 0
    ELSE LET i == CHOOSE x \in indexes : TRUE
         IN  orders[i].total + SumTotals(indexes \ {i})

PaidOrdersOf(u) == {i \in PaidIndexes : orders[i].user_id = u}

Spent(u) == SumTotals(PaidOrdersOf(u))

FirstPaid(u) == CHOOSE i \in PaidOrdersOf(u) : \A j \in PaidOrdersOf(u) : i <= j

SpendsBefore(u, v) ==
    \/ Spent(u) > Spent(v)
    \/ Spent(u) = Spent(v) /\ FirstPaid(u) < FirstPaid(v)

SpendRank(u) == Cardinality({x \in PaidUsers : SpendsBefore(x, u)})

\* C9: top_customers_report(orders, k), k >= 0, returns at most k entries
\* ordered by total_spent descending with ties in first-seen order of the
\* paid orders; every entry has total_spent = the sum of that user's paid
\* totals, order_count >= 1 = the user's number of paid orders, and
\* avg_order = floor(total_spent / order_count).
C9_TopCustomers ==
    (report.fn = "top_customers_report" /\ report.k >= 0) =>
        LET out == report.ret
        IN  /\ Len(out) <= report.k
            /\ Len(out) = Cardinality({u \in PaidUsers : SpendRank(u) < report.k})
            /\ \A i \in DOMAIN out :
                  /\ out[i].user_id \in PaidUsers
                  /\ SpendRank(out[i].user_id) = i - 1
                  /\ out[i].total_spent = Spent(out[i].user_id)
                  /\ out[i].order_count = Cardinality(PaidOrdersOf(out[i].user_id))
                  /\ out[i].order_count >= 1
                  /\ out[i].avg_order * out[i].order_count <= out[i].total_spent
                  /\ out[i].total_spent < (out[i].avg_order + 1) * out[i].order_count

\* the user seen second ranks first, with two paid orders whose mean is not
\* a whole number
C9_Witness ==
    /\ report.fn = "top_customers_report"
    /\ Len(report.ret) = 2
    /\ report.ret[1].order_count = 2
    /\ report.ret[1].avg_order * 2 < report.ret[1].total_spent
    /\ FirstPaid(report.ret[2].user_id) < FirstPaid(report.ret[1].user_id)

\* two users tie on total_spent and the second holds an unpaid order too
C9_WitnessTie ==
    /\ report.fn = "top_customers_report"
    /\ Len(report.ret) = 2
    /\ report.ret[1].total_spent = report.ret[2].total_spent
    /\ report.ret[1].total_spent > 0
    /\ \E i \in DOMAIN orders :
          orders[i].status # "paid" /\ orders[i].user_id = report.ret[2].user_id

\* C10: retention_rate(O) satisfies 0 <= repeat_customers <= total_customers
\* (the rate lies in 0..100), repeat_customers + first_time_customers =
\* total_customers, total_customers = the number of distinct users with a
\* paid order, repeat_customers = the number with more than one paid order;
\* non-paid orders change no field.
C10_Retention ==
    report.fn = "retention_rate" =>
        LET out == report.ret
        IN  /\ 0 <= out.repeat_customers
            /\ out.repeat_customers <= out.total_customers
            /\ out.retention_rate.den > 0
            /\ 0 <= out.retention_rate.num
            /\ out.retention_rate.num <= 100 * out.retention_rate.den
            /\ out.repeat_customers + out.first_time_customers = out.total_customers
            /\ out.total_customers = Cardinality(PaidUsers)
            /\ out.repeat_customers =
                  Cardinality({u \in PaidUsers : Cardinality(PaidOrdersOf(u)) > 1})
            /\ out = retention_rate(SelectSeq(orders, is_paid))

\* one repeat customer, and a user whose only order is unpaid
C10_Witness ==
    /\ report.fn = "retention_rate"
    /\ report.ret.repeat_customers = 1
    /\ report.ret.total_customers = 1
    /\ \E i \in DOMAIN orders :
          orders[i].status # "paid" /\ PaidOrdersOf(orders[i].user_id) = {}

\* one repeat customer and one first-time customer
C10_WitnessBoth ==
    /\ report.fn = "retention_rate"
    /\ report.ret.repeat_customers = 1
    /\ report.ret.first_time_customers = 1

-----------------------------------------------------------------------------
(* core/recursion.py *)

MaxCats == 4        \* longest category tuple drawn as an input

Category(id, name, parent_id) == [id |-> id, name |-> name, parent_id |-> parent_id]

CategoryIds == {"c001", "c002", "c003", "c004"}

\* flatten_categories that stops at the direct children
flatten_categories_direct_only(cats, root) ==
    LET matching == SelectSeq(cats, LAMBDA c : c.id = root)
    IN  IF matching = <<>>
        THEN <<>>
        ELSE <<Head(matching)>> \o SelectSeq(cats, LAMBDA c : c.parent_id = root)

RECURSIVE flatten_categories(_, _)
RECURSIVE flatten_each(_, _)

\* next((c for c in cats if c.id == root), None)
next_category(cats, root) ==
    LET matching == SelectSeq(cats, LAMBDA c : c.id = root)
    IN  IF matching = <<>> THEN None ELSE Head(matching)

\* tuple(cat for child in direct_children for cat in flatten_categories(cats, child.id))
flatten_each(cats, children) ==
    IF children = <<>>
    THEN <<>>
    ELSE flatten_categories(cats, Head(children).id)
            \o flatten_each(cats, Tail(children))

flatten_categories(cats, root) ==
    LET root_cat == next_category(cats, root)
    IN  IF root_cat = None
        THEN <<>>
        ELSE LET direct_children == SelectSeq(cats, LAMBDA c : c.parent_id = root)
                 nested == flatten_each(cats, direct_children)
             IN  <<root_cat>> \o direct_children \o nested

\* {c.id for c in subcats}
ids_of(subcats) == {subcats[i].id : i \in DOMAIN subcats}

collect_products_recursive(cats, prods, root) ==
    LET subcats == flatten_categories(cats, root)
        cat_ids == ids_of(subcats)
    IN  SelectSeq(prods, LAMBDA p : p.category_id \in cat_ids)

-----------------------------------------------------------------------------
(* The category functions applied to bounded inputs *)

\* category tuples of at most n categories with unique ids; a parent_id is
\* None, the id of a category of the tuple or an id that matches none
RECURSIVE UniqueCategories(_)
UniqueCategories(n) ==
    IF n = 0
    THEN {<<>>}
    ELSE LET shorter == UniqueCategories(n - 1)
         IN  shorter \cup
             UNION {{Append(cats, Category(id, "Cat", parent)) :
                        id \in CategoryIds \ ids_of(cats),
                        parent \in CategoryIds \cup {NoneStr}} :
                    cats \in {c \in shorter : Len(c) = n - 1}}

\* the id reached from id by following parent_id n times
RECURSIVE Ancestor(_, _, _)
Ancestor(cats, id, n) ==
    IF n = 0
    THEN id
    ELSE LET c == next_category(cats, Ancestor(cats, id, n - 1))
         IN  IF c = None THEN NoneStr ELSE c.parent_id

HasUniqueIds(cats) ==
    \A i, j \in DOMAIN cats : cats[i].id = cats[j].id => i = j

\* no category is its own ancestor
Acyclic(cats) ==
    \A i \in DOMAIN cats : \A n \in 1..Len(cats) :
        Ancestor(cats, cats[i].id, n) # cats[i].id

CategoryInputs == {cats \in UniqueCategories(MaxCats) : Acyclic(cats)}

\* two products in each category id, one id matching no category ever
CategoryCatalog ==
    <<Product("p1", "A", 1000, "c001", <<>>),
      Product("p2", "B", 2000, "c002", <<>>),
      Product("p3", "C", 3000, "c003", <<>>),
      Product("p4", "D", 4000, "cXXX", <<>>),
      Product("p5", "E", 5000, "c004", <<>>),
      Product("p6", "F", 6000, "c002", <<>>),
      Product("p7", "G", 7000, "c001", <<>>),
      Product("p8", "H", 8000, "c003", <<>>)>>

FlattenCategories ==
    /\ subtree = None
    /\ subtree' = [fn |-> "flatten_categories",
                   ret |-> flatten_categories(categories, root_id)]
    /\ UNCHANGED <<coreVars, categories, root_id, busVars, ftypesVars, asyncVars>>

CollectProductsRecursive ==
    /\ subtree = None
    /\ subtree' = [fn |-> "collect_products_recursive",
                   ret |-> collect_products_recursive(categories, products, root_id)]
    /\ UNCHANGED <<coreVars, categories, root_id, busVars, ftypesVars, asyncVars>>

InitCategories ==
    /\ cart = Cart("c1", "u1", <<>>)
    /\ hist = <<>>
    /\ products = CategoryCatalog
    /\ placed = <<>>
    /\ sales = None
    /\ orders = <<>>
    /\ report = <<>>
    /\ categories \in CategoryInputs
    /\ root_id \in CategoryIds
    /\ subtree = None
    /\ NoBuses
    /\ NoFtypes
    /\ NoAsync

NextCategories ==
    \/ FlattenCategories
    \/ CollectProductsRecursive

SpecCategories == InitCategories /\ [][NextCategories]_vars

-----------------------------------------------------------------------------
(* Claims on the category functions *)

FlattenCalled == subtree # None /\ subtree.fn = "flatten_categories"

CollectCalled == subtree # None /\ subtree.fn = "collect_products_recursive"

\* the categories of cats whose parent_id is id, in input order
ChildrenOf(cats, id) == SelectSeq(cats, LAMBDA c : c.parent_id = id)

\* the preorder listing of the subtree of root
RECURSIVE Preorder(_, _)
RECURSIVE PreorderEach(_, _)
PreorderEach(cats, children) ==
    IF children = <<>>
    THEN <<>>
    ELSE Preorder(cats, Head(children).id) \o PreorderEach(cats, Tail(children))

Preorder(cats, root) ==
    IF next_category(cats, root) = None
    THEN <<>>
    ELSE <<next_category(cats, root)>> \o PreorderEach(cats, ChildrenOf(cats, root))

\* C11: for an acyclic category tuple with unique ids, flatten_categories
\* lists every category of the subtree exactly once, in preorder: the root,
\* then each direct child immediately followed by that child's subtree,
\* children in input order.  The code lists every direct child twice (once
\* among direct_children, once at the head of its own recursive result).
C11_FlattenPreorder ==
    (FlattenCalled /\ HasUniqueIds(categories) /\ Acyclic(categories))
        => /\ subtree.ret = Preorder(categories, root_id)
           /\ \A i, j \in DOMAIN subtree.ret :
                  subtree.ret[i] = subtree.ret[j] => i = j

\* the ids of the categories that reach root by following parent_id
DescendantIds(cats, root) ==
    {cats[i].id : i \in {j \in DOMAIN cats :
        \E n \in 1..Len(cats) : Ancestor(cats, cats[j].id, n) = root}}

\* C12: for an acyclic category tuple, the set of ids flatten_categories
\* returns is root_id plus the ids of all categories reachable from it through
\* parent_id links, and the result is empty when root_id matches no category.
C12_FlattenIds ==
    (FlattenCalled /\ Acyclic(categories))
        => IF root_id \in ids_of(categories)
           THEN ids_of(subtree.ret) = {root_id} \cup DescendantIds(categories, root_id)
           ELSE subtree.ret = <<>>

\* a root with a child, a grandchild and an unrelated category
C12_Witness ==
    /\ FlattenCalled
    /\ Len(categories) = 4
    /\ Cardinality(ids_of(subtree.ret)) = 3
    /\ \E i \in DOMAIN categories :
           /\ categories[i].id \in ids_of(subtree.ret)
           /\ categories[i].parent_id # root_id
           /\ categories[i].id # root_id

\* a root id that matches no category although a category names it as parent
C12_WitnessNoRoot ==
    /\ FlattenCalled
    /\ root_id \notin ids_of(categories)
    /\ \E i \in DOMAIN categories : categories[i].parent_id = root_id
    /\ subtree.ret = <<>>

\* C13: for every categories, products and root_id (a root_id that matches
\* no category included), collect_products_recursive returns the products
\* whose category_id is in {root_id} united with the ids of
\* flatten_categories(categories, root_id), each once and in product order.
\* The code leaves root_id out of the id set, so a root_id that matches no
\* category collects nothing.
C13_CollectProducts ==
    CollectCalled
        => subtree.ret =
             SelectSeq(products, LAMBDA p :
                p.category_id \in {root_id}
                    \cup ids_of(flatten_categories(categories, root_id)))

-----------------------------------------------------------------------------
(* core/frp.py *)

\* A dict with string keys (the state, state["active_carts"], a cart's items,
\* an event payload) is a function on its key set: dict equality in Python does
\* not depend on insertion order.  The empty dict is the empty function <<>>.

\* d.get(key, default)
get(d, key, default) == IF key \in DOMAIN d THEN d[key] ELSE default

\* {**d, key: value}
put(d, key, value) ==
    [k \in (DOMAIN d) \cup {key} |-> IF k = key THEN value ELSE d[k]]

\* {k: v for k, v in d.items() if k != key}
without(d, key) == [k \in (DOMAIN d) \ {key} |-> d[k]]

Event(id, ts, name, payload) == [id |-> id, ts |-> ts, name |-> name, payload |-> payload]

EventBus(subscribers) == [subscribers |-> subscribers]

\* subscribe that puts the new pair in front
subscribe_in_front(self, event_name, handler) ==
    EventBus(<<<<event_name, handler>>>> \o self.subscribers)

subscribe(self, event_name, handler) ==
    LET new_subscriber == <<event_name, handler>>
    IN  EventBus(self.subscribers \o <<new_subscriber>>)

handle_add_to_cart(event, state) ==
    LET cart_id == get(event.payload, "cart_id", None)
        product_id == get(event.payload, "product_id", None)
        qty == get(event.payload, "qty", 1)
        active_carts == get(state, "active_carts", <<>>)
        cart_items == get(active_carts, cart_id, <<>>)
        updated_items == put(cart_items, product_id, get(cart_items, product_id, 0) + qty)
    IN  put(put(state, "active_carts", put(active_carts, cart_id, updated_items)),
            "last_event", event.name)

\* handle_checkout putting the new sale in front of current_sales
handle_checkout_newest_first(event, state) ==
    LET total == get(event.payload, "total", 0)
        new_sale == [order_id |-> get(event.payload, "order_id", None), total |-> total,
                     user_id |-> get(event.payload, "user_id", None), ts |-> event.ts]
    IN  put(put(put(state, "current_sales", <<new_sale>> \o get(state, "current_sales", <<>>)),
                "total_revenue", get(state, "total_revenue", 0) + total),
            "last_event", event.name)

handle_checkout(event, state) ==
    LET order_id == get(event.payload, "order_id", None)
        total == get(event.payload, "total", 0)
        user_id == get(event.payload, "user_id", None)
        current_sales == get(state, "current_sales", <<>>)
        new_sale == [order_id |-> order_id, total |-> total, user_id |-> user_id,
                     ts |-> event.ts]
    IN  put(put(put(state, "current_sales", current_sales \o <<new_sale>>),
                "total_revenue", get(state, "total_revenue", 0) + total),
            "last_event", event.name)

handle_refund(event, state) ==
    LET order_id == get(event.payload, "order_id", None)
        amount == get(event.payload, "amount", 0)
        refunds == get(state, "refunds", <<>>)
        new_refund == [order_id |-> order_id, amount |-> amount, ts |-> event.ts]
    IN  put(put(put(state, "refunds", refunds \o <<new_refund>>),
                "total_refunded", get(state, "total_refunded", 0) + amount),
            "last_event", event.name)

handle_remove_from_cart(event, state) ==
    LET cart_id == get(event.payload, "cart_id", None)
        product_id == get(event.payload, "product_id", None)
        active_carts == get(state, "active_carts", <<>>)
        cart_items == get(active_carts, cart_id, <<>>)
        updated_items == without(cart_items, product_id)
    IN  put(put(state, "active_carts", put(active_carts, cart_id, updated_items)),
            "last_event", event.name)

\* handler(event, current_state): a handler is named by its function name
call_handler(handler, event, state) ==
    CASE handler = "handle_add_to_cart" -> handle_add_to_cart(event, state)
      [] handler = "handle_remove_from_cart" -> handle_remove_from_cart(event, state)
      [] handler = "handle_checkout" -> handle_checkout(event, state)
      [] handler = "handle_refund" -> handle_refund(event, state)

apply_handler(event, current_state, handler) == call_handler(handler, event, current_state)

\* reduce(apply_handler, matching_handlers, state)
RECURSIVE reduce_apply_handler(_, _, _)
reduce_apply_handler(event, handlers, state) ==
    IF handlers = <<>>
    THEN state
    ELSE reduce_apply_handler(event, Tail(handlers),
                              apply_handler(event, state, Head(handlers)))

\* the handler of every (name, handler) pair
handlers_of(subscribers) == [i \in DOMAIN subscribers |-> subscribers[i][2]]

\* publish that runs every subscriber, whatever its name
publish_to_all(self, event, state) ==
    reduce_apply_handler(event, handlers_of(self.subscribers), state)

publish(self, event, state) ==
    LET matching_handlers ==
            handlers_of(SelectSeq(self.subscribers, LAMBDA sub : sub[1] = event.name))
    IN  reduce_apply_handler(event, matching_handlers, state)

create_shop_event_bus ==
    LET bus0 == EventBus(<<>>)
        bus1 == subscribe(bus0, "ADD_TO_CART", "handle_add_to_cart")
        bus2 == subscribe(bus1, "REMOVE", "handle_remove_from_cart")
        bus3 == subscribe(bus2, "CHECKOUT", "handle_checkout")
    IN  subscribe(bus3, "REFUND", "handle_refund")

initial_state ==
    [active_carts |-> <<>>, current_sales |-> <<>>, refunds |-> <<>>,
     total_revenue |-> 0, total_refunded |-> 0, last_event |-> NoneStr]

\* apply_events that stops after the first event
apply_events_first_only(bus, events, state) ==
    IF events = <<>> THEN state ELSE publish(bus, Head(events), state)

\* reduce(lambda s, e: bus.publish(e, s), events, state)
RECURSIVE apply_events(_, _, _)
apply_events(bus, events, state) ==
    IF events = <<>>
    THEN state
    ELSE apply_events(bus, Tail(events), publish(bus, Head(events), state))

-----------------------------------------------------------------------------
(* Buses built by subscribe, and one publish on any of them *)

MaxBuses == 4       \* EventBus objects in one behaviour, EventBus() included

BusNames == {"ADD_TO_CART", "CHECKOUT"}
BusHandlers == {"handle_add_to_cart", "handle_remove_from_cart", "handle_checkout"}

BusEvents ==
    {Event("e1", "2025-09-15T12:00:00", "ADD_TO_CART",
           [cart_id |-> "c1", product_id |-> "p1", qty |-> 2]),
     Event("e2", "2025-09-15T12:00:00", "CHECKOUT",
           [order_id |-> "o1", user_id |-> "u1", total |-> 30000]),
     Event("e3", "2025-09-15T12:00:00", "PING", <<>>)}

\* no call made on a bus yet
NoBusCall == [fn |-> ""]

\* bus = buses[self].subscribe(event_name, handler): a new object, kept last
Subscribe(self, event_name, handler) ==
    /\ published.fn \in {"", "subscribe"}
    /\ Len(buses) < MaxBuses
    /\ buses' = Append(buses, subscribe(buses[self], event_name, handler))
    /\ published' = [fn |-> "subscribe", self |-> self, event_name |-> event_name,
                     handler |-> handler, before |-> buses]
    /\ UNCHANGED <<coreVars, categoryVars, shop_state, ftypesVars, asyncVars>>

\* state = buses[self].publish(event, state)
Publish(self, event) ==
    /\ published.fn \in {"", "subscribe", "apply_events"}
    /\ shop_state' = publish(buses[self], event, shop_state)
    /\ published' = [fn |-> "publish", self |-> self, event |-> event,
                     state |-> shop_state]
    /\ UNCHANGED <<coreVars, categoryVars, buses, ftypesVars, asyncVars>>

InitBus ==
    /\ cart = Cart("c1", "u1", <<>>)
    /\ hist = <<>>
    /\ products = <<>>
    /\ placed = <<>>
    /\ sales = None
    /\ orders = <<>>
    /\ report = <<>>
    /\ NoCategories
    /\ buses = <<EventBus(<<>>)>>
    /\ shop_state = initial_state
    /\ published = NoBusCall
    /\ NoFtypes
    /\ NoAsync

NextBus ==
    \/ \E self \in DOMAIN buses, event_name \in BusNames, handler \in BusHandlers :
            Subscribe(self, event_name, handler)
    \/ \E self \in DOMAIN buses, event \in BusEvents : Publish(self, event)

SpecBus == InitBus /\ [][NextBus]_vars

-----------------------------------------------------------------------------
(* Claims on the bus *)

PublishCalled == published # None /\ published.fn = "publish"

SubscribeCalled == published # None /\ published.fn = "subscribe"

\* the state after the first n subscribers have been considered for event
RECURSIVE AfterSubscribers(_, _, _, _)
AfterSubscribers(subscribers, event, state, n) ==
    IF n = 0
    THEN state
    ELSE LET before == AfterSubscribers(subscribers, event, state, n - 1)
         IN  IF subscribers[n][1] = event.name
             THEN call_handler(subscribers[n][2], event, before)
             ELSE before

\* C14: publish applies the handlers subscribed under event.name, once per
\* subscription, in subscription order, each on the state the previous one
\* returned; subscribers of other names are not run, and with no matching
\* subscriber the state is returned as it was.
C14_Publish ==
    PublishCalled =>
        LET subscribers == buses[published.self].subscribers
        IN  /\ shop_state = AfterSubscribers(subscribers, published.event,
                                             published.state, Len(subscribers))
            /\ (\A i \in DOMAIN subscribers : subscribers[i][1] # published.event.name)
                    => shop_state = published.state

\* the same handler subscribed twice under the event's name, a subscriber of
\* another name between the two: the cart line is added twice, nothing is sold
C14_Witness ==
    /\ PublishCalled
    /\ published.event.name = "ADD_TO_CART"
    /\ buses[published.self].subscribers =
            <<<<"ADD_TO_CART", "handle_add_to_cart">>,
              <<"CHECKOUT", "handle_checkout">>,
              <<"ADD_TO_CART", "handle_add_to_cart">>>>
    /\ shop_state.active_carts = [c1 |-> [p1 |-> 4]]
    /\ shop_state.current_sales = <<>>

\* subscribers of the event's name run in subscription order: add, then remove
C14_WitnessOrder ==
    /\ PublishCalled
    /\ buses[published.self].subscribers =
            <<<<"ADD_TO_CART", "handle_add_to_cart">>,
              <<"ADD_TO_CART", "handle_remove_from_cart">>>>
    /\ published.event.name = "ADD_TO_CART"
    /\ shop_state.active_carts = [c1 |-> <<>>]

\* subscribers, none under the event's name
C14_WitnessNoMatch ==
    /\ PublishCalled
    /\ Len(buses[published.self].subscribers) = 3
    /\ published.event.name = "PING"
    /\ shop_state = published.state

\* C16: subscribe returns a new bus whose subscribers are the original's
\* followed by (name, handler); the buses that existed before the call, the
\* original among them, keep their subscribers, the first EventBus() stays
\* empty after any number of calls, and publish on the original returns what
\* it returned before the call.
C16_Subscribe ==
    SubscribeCalled =>
        LET original == published.before[published.self]
        IN  /\ Len(buses) = Len(published.before) + 1
            /\ buses[Len(buses)].subscribers =
                    original.subscribers
                        \o <<<<published.event_name, published.handler>>>>
            /\ \A i \in DOMAIN published.before : buses[i] = published.before[i]
            /\ buses[1].subscribers = <<>>
            /\ \A event \in BusEvents :
                    publish(buses[published.self], event, shop_state)
                        = publish(original, event, shop_state)

\* the third subscribe call of a behaviour, on a bus that has a subscriber and
\* was subscribed on before
C16_Witness ==
    /\ SubscribeCalled
    /\ Len(buses) = 4
    /\ Len(buses[published.self].subscribers) = 1
    /\ \E i \in DOMAIN published.before :
            /\ Len(published.before[i].subscribers) = 2
            /\ published.before[i].subscribers[1] = buses[published.self].subscribers[1]
    /\ Len(buses[4].subscribers) = 2

-----------------------------------------------------------------------------
(* The shop bus: apply_events on a state, then one publish *)

MaxEvents == 3      \* longest event tuple handed to apply_events

ShopEvents ==
    {Event("e1", "2025-09-15T12:00:00", "ADD_TO_CART",
           [cart_id |-> "c1", product_id |-> "p1", qty |-> 2]),
     Event("e2", "2025-09-15T12:00:00", "ADD_TO_CART",
           [cart_id |-> "c1", product_id |-> "p2"]),
     Event("e3", "2025-09-15T12:00:00", "ADD_TO_CART",
           [cart_id |-> "c2", product_id |-> "p1", qty |-> 3]),
     Event("e4", "2025-09-15T13:00:00", "REMOVE",
           [cart_id |-> "c1", product_id |-> "p1"]),
     Event("e5", "2025-09-15T13:00:00", "REMOVE",
           [cart_id |-> "c2", product_id |-> "p2"]),
     Event("e6", "2025-09-15T13:00:00", "CHECKOUT",
           [order_id |-> "o1", user_id |-> "u1", total |-> 30000]),
     Event("e7", "2025-09-15T13:00:00", "REFUND",
           [order_id |-> "o1", amount |-> 20000]),
     Event("e8", "2025-09-15T13:00:00", "PING", <<>>)}

\* the shop bus, the shop bus with a second ADD_TO_CART subscriber, EventBus()
ShopBuses ==
    {create_shop_event_bus,
     subscribe(create_shop_event_bus, "ADD_TO_CART", "handle_add_to_cart"),
     EventBus(<<>>)}

\* initial_state(), the empty dict, and a state with carts and a sale
ShopStates ==
    {initial_state,
     <<>>,
     [active_carts |-> [c1 |-> [p1 |-> 1, p2 |-> 2], c2 |-> [p2 |-> 1]],
      current_sales |-> <<[order_id |-> "o0", total |-> 1000, user_id |-> "u2",
                           ts |-> "2025-09-15T12:00:00"]>>,
      refunds |-> <<>>,
      total_revenue |-> 1000, total_refunded |-> 0, last_event |-> "CHECKOUT"]}

\* state = apply_events(buses[self], events, state)
ApplyEvents(self, events) ==
    /\ published.fn = ""
    /\ shop_state' = apply_events(buses[self], events, shop_state)
    /\ published' = [fn |-> "apply_events", self |-> self, events |-> events,
                     state |-> shop_state]
    /\ UNCHANGED <<coreVars, categoryVars, buses, ftypesVars, asyncVars>>

InitShop ==
    /\ cart = Cart("c1", "u1", <<>>)
    /\ hist = <<>>
    /\ products = <<>>
    /\ placed = <<>>
    /\ sales = None
    /\ orders = <<>>
    /\ report = <<>>
    /\ NoCategories
    /\ buses \in {<<bus>> : bus \in ShopBuses}
    /\ shop_state \in ShopStates
    /\ published = NoBusCall
    /\ NoFtypes
    /\ NoAsync

NextShop ==
    \/ \E events \in SeqUpTo(ShopEvents, MaxEvents) : ApplyEvents(1, events)
    \/ \E event \in ShopEvents : Publish(1, event)

SpecShop == InitShop /\ [][NextShop]_vars

-----------------------------------------------------------------------------
(* Claims on the shop bus *)

ApplyEventsCalled == published # None /\ published.fn = "apply_events"

\* the state after publish has been called for the first n events, in order
RECURSIVE PublishedInOrder(_, _, _, _)
PublishedInOrder(bus, events, state, n) ==
    IF n = 0
    THEN state
    ELSE publish(bus, events[n], PublishedInOrder(bus, events, state, n - 1))

\* C15: apply_events(bus, E, S0) is the state reached by calling publish for
\* each event of E in order, each call on the state the previous one returned;
\* and for every split E = E1 ++ E2 it equals
\* apply_events(bus, E2, apply_events(bus, E1, S0)).
C15_ApplyEvents ==
    ApplyEventsCalled =>
        LET bus == buses[published.self]
            E == published.events
            S0 == published.state
        IN  /\ shop_state = PublishedInOrder(bus, E, S0, Len(E))
            /\ \A k \in 0..Len(E) :
                    shop_state =
                        apply_events(bus, SubSeq(E, k + 1, Len(E)),
                                     apply_events(bus, SubSeq(E, 1, k), S0))

\* the event sequence of the repository's test: two lines added to cart c1,
\* then a checkout
C15_Witness ==
    /\ ApplyEventsCalled
    /\ buses[1] = create_shop_event_bus
    /\ published.state = initial_state
    /\ Len(published.events) = 3
    /\ shop_state.active_carts = [c1 |-> [p1 |-> 2, p2 |-> 1]]
    /\ shop_state.total_revenue = 30000
    /\ Len(shop_state.current_sales) = 1

RemovePublished ==
    /\ published # None
    /\ published.fn = "publish"
    /\ published.event.name = "REMOVE"
    /\ buses[published.self] = create_shop_event_bus

\* C17: a REMOVE event for (cart_id, product_id) on the shop bus only deletes
\* product_id from active_carts[cart_id] if it is present: the set of cart
\* ids, every other cart, every other product's quantity in that cart,
\* current_sales, refunds, total_revenue and total_refunded are unchanged,
\* also when cart_id is not in active_carts.  The code writes
\* active_carts[cart_id] back in every case, so a REMOVE for a cart id that is
\* not in active_carts adds that id with an empty cart.
C17_RemoveOnlyDeletes ==
    RemovePublished =>
        LET old == get(published.state, "active_carts", <<>>)
            new == get(shop_state, "active_carts", <<>>)
            cart_id == published.event.payload.cart_id
            product_id == published.event.payload.product_id
        IN  /\ DOMAIN new = DOMAIN old
            /\ \A c \in DOMAIN old \ {cart_id} : new[c] = old[c]
            /\ cart_id \in DOMAIN old =>
                    /\ DOMAIN new[cart_id] = DOMAIN old[cart_id] \ {product_id}
                    /\ \A p \in DOMAIN new[cart_id] : new[cart_id][p] = old[cart_id][p]
            /\ \A key \in {"current_sales", "refunds"} :
                    get(shop_state, key, <<>>) = get(published.state, key, <<>>)
            /\ \A key \in {"total_revenue", "total_refunded"} :
                    get(shop_state, key, 0) = get(published.state, key, 0)

-----------------------------------------------------------------------------
(* core/ftypes.py: the methods of Maybe and Either *)

\* A value held by a Maybe or an Either may be None, so it has to compare
\* with None: an int n is the record [int |-> n], a str s the record
\* [str |-> s], None the empty sequence.
PyInt(n) == [int |-> n]
PyStr(s) == [str |-> s]

\* Maybe(value): is_none() is "value is None".  A Maybe is kept as its
\* is_none() answer and, when it is not None, its value; Maybe_some above is
\* Maybe.some of a value that is not None.
Maybe(value) == IF value = None THEN Maybe_nothing ELSE Maybe_some(value)

Maybe_is_some(self) == ~self.is_none

Maybe_is_none(self) == self.is_none

\* the functions handed to map and bind, named
Functions == {"double", "to_none", "some_plus", "to_nothing", "right_plus", "to_left"}

\* fn(value)
Apply(fn, value) ==
    CASE fn = "double" -> PyInt(value.int * 2)                   \* lambda x: x * 2
      [] fn = "to_none" -> None                                \* lambda x: None
      [] fn = "some_plus" -> Maybe(PyInt(value.int + 5))         \* lambda x: Maybe.some(x + 5)
      [] fn = "to_nothing" -> Maybe(None)                      \* lambda x: Maybe.nothing()
      [] fn = "right_plus" -> Either_right(PyInt(value.int + 3)) \* lambda x: Either.right(x + 3)
      [] fn = "to_left" -> Either_left(PyStr("error"))           \* lambda x: Either.left("error")

\* fn(value) does not raise: the arithmetic ones need an int
Defined(fn, value) ==
    fn \in {"double", "some_plus", "right_plus"} => "int" \in DOMAIN value

\* the value of an expression together with the calls of fn made to get it
Evaluated(ret, calls) == [ret |-> ret, calls |-> calls]

\* Maybe.some(fn(self.value)) if self.is_some() else Maybe.nothing()
Maybe_map(self, fn) ==
    IF Maybe_is_some(self)
    THEN Evaluated(Maybe(Apply(fn, self.value)), <<<<fn, self.value>>>>)
    ELSE Evaluated(Maybe(None), <<>>)

\* fn(self.value) if self.is_some() else Maybe.nothing()
Maybe_bind(self, fn) ==
    IF Maybe_is_some(self)
    THEN Evaluated(Apply(fn, self.value), <<<<fn, self.value>>>>)
    ELSE Evaluated(Maybe(None), <<>>)

Either_is_right(self) == ~self.is_left

\* Either.map that calls fn on a Left as well and drops what it returns
Either_map_calls_on_left(self, fn) ==
    IF ~self.is_left
    THEN Evaluated(Either_right(Apply(fn, self.value)), <<<<fn, self.value>>>>)
    ELSE Evaluated(self, <<<<fn, self.value>>>>)

\* Either.right(fn(self.value)) if not self.is_left else self
Either_map(self, fn) ==
    IF ~self.is_left
    THEN Evaluated(Either_right(Apply(fn, self.value)), <<<<fn, self.value>>>>)
    ELSE Evaluated(self, <<>>)

\* fn(self.value) if not self.is_left else self
Either_bind(self, fn) ==
    IF ~self.is_left
    THEN Evaluated(Apply(fn, self.value), <<<<fn, self.value>>>>)
    ELSE Evaluated(self, <<>>)

-----------------------------------------------------------------------------
(* One method call on a Maybe or an Either made by a factory *)

MaxInt == 2     \* the ints held are 0, 5, .., 5 * MaxInt

Values == {None, PyStr("error")} \cup {PyInt(5 * n) : n \in 0..MaxInt}

\* the object a factory returned, with the factory and its argument
Made(factory, arg, self) == [factory |-> factory, arg |-> arg, self |-> self]

Monads ==
    {Made("Maybe.some", v, Maybe(v)) : v \in Values}
        \cup {Made("Maybe.nothing", None, Maybe(None))}
        \cup {Made("Either.left", v, Either_left(v)) : v \in Values}
        \cup {Made("Either.right", v, Either_right(v)) : v \in Values}

IsMaybe == monad.factory \in {"Maybe.some", "Maybe.nothing"}

IsEither == monad.factory \in {"Either.left", "Either.right"}

NoAnswer == [fn |-> ""]

\* a method was called with argument arg
Answered(fn, arg, evaluated) ==
    /\ answer = NoAnswer
    /\ answer' = [fn |-> fn, arg |-> arg, ret |-> evaluated.ret,
                  calls |-> evaluated.calls]
    /\ UNCHANGED <<coreVars, categoryVars, busVars, monad, purchase, stock, asyncVars>>

MaybeMap(fn) ==
    /\ IsMaybe
    /\ Maybe_is_some(monad.self) => Defined(fn, monad.self.value)
    /\ Answered("Maybe.map", fn, Maybe_map(monad.self, fn))

MaybeBind(fn) ==
    /\ IsMaybe
    /\ Maybe_is_some(monad.self) => Defined(fn, monad.self.value)
    /\ Answered("Maybe.bind", fn, Maybe_bind(monad.self, fn))

MaybeGetOrElse(default) ==
    /\ IsMaybe
    /\ Answered("Maybe.get_or_else", default,
                Evaluated(Maybe_get_or_else(monad.self, default), <<>>))

MaybeIsSome ==
    /\ IsMaybe
    /\ Answered("Maybe.is_some", None,
                Evaluated([is_some |-> Maybe_is_some(monad.self),
                           is_none |-> Maybe_is_none(monad.self)], <<>>))

EitherMap(fn) ==
    /\ IsEither
    /\ ~monad.self.is_left => Defined(fn, monad.self.value)
    /\ Answered("Either.map", fn, Either_map(monad.self, fn))

EitherBind(fn) ==
    /\ IsEither
    /\ ~monad.self.is_left => Defined(fn, monad.self.value)
    /\ Answered("Either.bind", fn, Either_bind(monad.self, fn))

EitherGetOrElse(default) ==
    /\ IsEither
    /\ Answered("Either.get_or_else", default,
                Evaluated(Either_get_or_else(monad.self, default), <<>>))

EitherIsRight ==
    /\ IsEither
    /\ Answered("Either.is_right", None,
                Evaluated([is_left |-> monad.self.is_left,
                           is_right |-> Either_is_right(monad.self)], <<>>))

InitFtypes ==
    /\ cart = Cart("c1", "u1", <<>>)
    /\ hist = <<>>
    /\ products = <<>>
    /\ placed = <<>>
    /\ sales = None
    /\ orders = <<>>
    /\ report = <<>>
    /\ NoCategories
    /\ NoBuses
    /\ NoAsync
    /\ monad \in Monads
    /\ purchase = None
    /\ stock = None
    /\ answer = NoAnswer

NextFtypes ==
    \/ \E fn \in Functions : MaybeMap(fn)
    \/ \E fn \in Functions : MaybeBind(fn)
    \/ \E default \in Values : MaybeGetOrElse(default)
    \/ MaybeIsSome
    \/ \E fn \in Functions : EitherMap(fn)
    \/ \E fn \in Functions : EitherBind(fn)
    \/ \E default \in Values : EitherGetOrElse(default)
    \/ EitherIsRight

SpecFtypes == InitFtypes /\ [][NextFtypes]_vars

-----------------------------------------------------------------------------
(* Claims on Maybe and Either *)

AnswerTo(fn) == answer # None /\ answer.fn = fn

\* C18: for every value v and function f, whatever f returns,
\* Maybe.some(v).map(f) is a Some holding f(v), is_some true and is_none
\* false; Maybe.nothing().map(f) and Maybe.nothing().bind(f) are Nothing
\* and f is not called; exactly one of is_some / is_none holds of every
\* Maybe.  The code decides is_some by "value is not None", so a Maybe.some
\* that holds None (f returned None, or v is None) is a Nothing.
C18_MaybeMap ==
    /\ (AnswerTo("Maybe.map") /\ monad.factory = "Maybe.some")
            => /\ Maybe_is_some(answer.ret)
               /\ ~Maybe_is_none(answer.ret)
               /\ answer.ret.value = Apply(answer.arg, monad.arg)
    /\ ((AnswerTo("Maybe.map") \/ AnswerTo("Maybe.bind"))
            /\ monad.factory = "Maybe.nothing")
            => /\ Maybe_is_none(answer.ret)
               /\ answer.calls = <<>>
    /\ AnswerTo("Maybe.is_some") => answer.ret.is_some # answer.ret.is_none

\* C19: Left(e).map(f) and Left(e).bind(f) are a Left carrying the same e
\* and f is not called, Left(e).get_or_else(d) is d; Right(v).map(f) is
\* Right(f(v)), Right(v).bind(f) is f(v), Right(v).get_or_else(d) is v;
\* is_left and is_right are opposite.
C19_Either ==
    /\ ((AnswerTo("Either.map") \/ AnswerTo("Either.bind"))
            /\ monad.factory = "Either.left")
            => /\ answer.ret.is_left
               /\ answer.ret.value = monad.arg
               /\ answer.calls = <<>>
    /\ (AnswerTo("Either.get_or_else") /\ monad.factory = "Either.left")
            => answer.ret = answer.arg
    /\ (AnswerTo("Either.map") /\ monad.factory = "Either.right")
            => /\ ~answer.ret.is_left
               /\ answer.ret.value = Apply(answer.arg, monad.arg)
    /\ (AnswerTo("Either.bind") /\ monad.factory = "Either.right")
            => answer.ret = Apply(answer.arg, monad.arg)
    /\ (AnswerTo("Either.get_or_else") /\ monad.factory = "Either.right")
            => answer.ret = monad.arg
    /\ AnswerTo("Either.is_right") => answer.ret.is_left # answer.ret.is_right

\* map on a Left that holds an int, with a function defined on ints
C19_Witness ==
    /\ AnswerTo("Either.map")
    /\ monad.factory = "Either.left"
    /\ monad.arg = PyInt(5)
    /\ answer.arg = "double"
    /\ answer.ret = Either_left(PyInt(5))

\* bind on a Right with a function that returns a Left
C19_WitnessBind ==
    /\ AnswerTo("Either.bind")
    /\ monad.factory = "Either.right"
    /\ answer.arg = "to_left"
    /\ answer.ret = Either_left(PyStr("error"))
    /\ Len(answer.calls) = 1

\* get_or_else on a Right that holds None returns None, not the default
C19_WitnessNone ==
    /\ AnswerTo("Either.get_or_else")
    /\ monad.factory = "Either.right"
    /\ monad.arg = None
    /\ answer.arg = PyInt(0)
    /\ answer.ret = None

-----------------------------------------------------------------------------
(* core/transforms.py: validate_order *)

\* The two error texts are written in Latin letters:
\*   f"Товар {pid} отсутствует в базе"        <<"Tovar ", pid, " otsutstvuet v baze">>
\*   f"Недостаточно товара {pid} на складе"   <<"Nedostatochno tovara ", pid, " na sklade">>
validate_item(stock_dict, item) ==
    LET pid == item[1]
        qty == item[2]
    IN  IF pid \notin DOMAIN stock_dict
        THEN Either_left([error |-> <<"Tovar ", pid, " otsutstvuet v baze">>])
        ELSE IF stock_dict[pid] < qty
             THEN Either_left([error |-> <<"Nedostatochno tovara ", pid, " na sklade">>])
             ELSE Either_right(item)

\* sum(qty * 1000 for _, qty in order.items)
RECURSIVE sum_placeholder(_)
sum_placeholder(items) ==
    IF items = <<>> THEN 0 ELSE items[1][2] * 1000 + sum_placeholder(Tail(items))

\* validate_order that reports the last failing line
validate_order_last_error(order, stock_dict) ==
    LET results == [i \in DOMAIN order.items |-> validate_item(stock_dict, order.items[i])]
        lefts == SelectSeq(results, LAMBDA r : r.is_left)
    IN  IF lefts # <<>>
        THEN Either_left(lefts[Len(lefts)].value)
        ELSE Either_right(Order(order.id, order.user_id, order.items,
                                sum_placeholder(order.items), order.ts, "validated"))

validate_order(order, stock_dict) ==
    LET results == [i \in DOMAIN order.items |-> validate_item(stock_dict, order.items[i])]
        lefts == SelectSeq(results, LAMBDA r : r.is_left)
        errors == [i \in DOMAIN lefts |-> lefts[i].value]
    IN  IF errors # <<>>
        THEN Either_left(errors[1])
        ELSE LET total == sum_placeholder(order.items)
                 validated == Order(order.id, order.user_id, order.items, total,
                                    order.ts, "validated")
             IN  Either_right(validated)

-----------------------------------------------------------------------------
(* validate_order applied to bounded inputs *)

MaxStock == 2       \* largest quantity in stock, and largest quantity ordered

\* a stock dict has some of the product ids, each with 0..MaxStock in stock
StockInputs == UNION {[ids -> 0..MaxStock] : ids \in SUBSET {"p1", "p2"}}

PurchaseItems == SeqUpTo({"p1", "p2", "p3"} \X (1..MaxStock), MaxItems)

PurchaseInputs ==
    {Order("o1", "u1", items, 0, "2025-10-21", "pending") : items \in PurchaseItems}

ValidateOrder ==
    /\ answer = NoAnswer
    /\ answer' = [fn |-> "validate_order", ret |-> validate_order(purchase, stock)]
    /\ UNCHANGED <<coreVars, categoryVars, busVars, monad, purchase, stock, asyncVars>>

InitValidate ==
    /\ cart = Cart("c1", "u1", <<>>)
    /\ hist = <<>>
    /\ products = <<>>
    /\ placed = <<>>
    /\ sales = None
    /\ orders = <<>>
    /\ report = <<>>
    /\ NoCategories
    /\ NoBuses
    /\ NoAsync
    /\ monad = None
    /\ purchase \in PurchaseInputs
    /\ stock \in StockInputs
    /\ answer = NoAnswer

NextValidate == ValidateOrder

SpecValidate == InitValidate /\ [][NextValidate]_vars

-----------------------------------------------------------------------------
(* Claims on validate_order *)

\* line i of the order cannot be served from stock
LineFails(i) ==
    LET pid == purchase.items[i][1]
        qty == purchase.items[i][2]
    IN  pid \notin DOMAIN stock \/ stock[pid] < qty

FailingLines == {i \in DOMAIN purchase.items : LineFails(i)}

FirstFailing == CHOOSE i \in FailingLines : \A j \in FailingLines : i <= j

\* C20: validate_order returns a Left carrying the error of the first line
\* item, in item order, whose product id is not in stock or whose stock is
\* below its quantity; with no such line it returns a Right wrapping an order
\* of status "validated" with the input's id, user_id, items and ts.
C20_ValidateOrder ==
    AnswerTo("validate_order") =>
        IF FailingLines # {}
        THEN /\ answer.ret.is_left
             /\ answer.ret.value =
                    validate_item(stock, purchase.items[FirstFailing]).value
             /\ answer.ret.value.error[2] = purchase.items[FirstFailing][1]
             /\ answer.ret.value.error[1] =
                    IF purchase.items[FirstFailing][1] \in DOMAIN stock
                    THEN "Nedostatochno tovara "
                    ELSE "Tovar "
        ELSE /\ ~answer.ret.is_left
             /\ answer.ret.value.status = "validated"
             /\ answer.ret.value.id = purchase.id
             /\ answer.ret.value.user_id = purchase.user_id
             /\ answer.ret.value.items = purchase.items
             /\ answer.ret.value.ts = purchase.ts

\* two failing lines with different errors: the first one is reported
C20_Witness ==
    /\ AnswerTo("validate_order")
    /\ Cardinality(FailingLines) = 2
    /\ purchase.items[1][1] \in DOMAIN stock
    /\ purchase.items[2][1] \notin DOMAIN stock
    /\ answer.ret = Either_left([error |-> <<"Nedostatochno tovara ",
                                             purchase.items[1][1], " na sklade">>])

\* every line can be served
C20_WitnessValidated ==
    /\ AnswerTo("validate_order")
    /\ Len(purchase.items) = 2
    /\ FailingLines = {}
    /\ ~answer.ret.is_left
    /\ answer.ret.value.status = "validated"

-----------------------------------------------------------------------------
(* core/async_ops.py: the units of work and the merge steps                *)
(*                                                                         *)
(* An ISO timestamp string is the sequence of its numeric fields           *)
(* ("2025-06-22T10" is <<2025, 6, 22, 10>>): str.startswith is the prefix  *)
(* test, ts[:10] the first three fields, and the order of two date strings *)
(* the lexicographic order of their fields.  An object handed in place of  *)
(* an Order that lacks an attribute is a record without that field, and    *)
(* reading the attribute raises AttributeError; so does reading any        *)
(* attribute of None.  Every unit returns Return(value) or Raise(name).    *)

User(id, name, tier) == [id |-> id, name |-> name, tier |-> tier]

hasattr(o, name) == name \in DOMAIN o

\* s.startswith(prefix)
startswith(s, prefix) ==
    /\ Len(prefix) <= Len(s)
    /\ SubSeq(s, 1, Len(prefix)) = prefix

\* sum(...) over a list of integers
RECURSIVE sum(_)
sum(ns) == IF ns = <<>> THEN 0 ELSE Head(ns) + sum(Tail(ns))

\* reduce(lambda acc, o: acc + o.total, os, 0), which raises at the first
\* object without a total
reduce_total_or_raise(os) ==
    IF \E i \in DOMAIN os : ~hasattr(os[i], "total")
    THEN Raise("AttributeError")
    ELSE Return(reduce_totals(os, 0))

\* dict(results) of a list of (key, value) pairs
RECURSIVE dict_of(_, _)
dict_of(pairs, acc) ==
    IF pairs = <<>> THEN acc
    ELSE dict_of(Tail(pairs), dict_set(acc, Head(pairs)[1], Head(pairs)[2]))

\* sales_by_day_async: calculate_day_sales(day), after its sleep
calculate_day_sales(os, day) ==
    LET day_orders == SelectSeq(os, LAMBDA o : startswith(o.ts, day) /\ o.status = "paid")
        total == reduce_total_or_raise(day_orders)
    IN  IF total.raised # "" THEN total ELSE Return(<<day, total.value>>)

\* sales_by_user_async: calculate_user_sales(user_id), after its sleep
calculate_user_sales(os, user_id) ==
    LET user_orders == SelectSeq(os, LAMBDA o : o.user_id = user_id /\ o.status = "paid")
        total == reduce_total_or_raise(user_orders)
    IN  IF total.raised # "" THEN total ELSE Return(<<user_id, total.value>>)

\* next((item for item in items if item[0] == product_id), None)
first_item(items, product_id) ==
    IF \E i \in DOMAIN items : items[i][1] = product_id
    THEN items[CHOOSE i \in DOMAIN items :
                   /\ items[i][1] = product_id
                   /\ \A j \in 1..(i - 1) : items[j][1] # product_id]
    ELSE None

\* product_performance_async: accumulate_sales(acc, order) of analyze_product
accumulate_sales(product, acc, order) ==
    IF order.status # "paid" THEN acc
    ELSE LET item == first_item(order.items, product.id)
         IN  IF item # None
             THEN <<acc[1] + item[2], acc[2] + product.price * item[2]>>
             ELSE acc

\* reduce(accumulate_sales, orders, acc)
RECURSIVE reduce_accumulate_sales(_, _, _)
reduce_accumulate_sales(product, os, acc) ==
    IF os = <<>> THEN acc
    ELSE reduce_accumulate_sales(product, Tail(os), accumulate_sales(product, acc, Head(os)))

\* product_performance_async: analyze_product(product), after its sleep
analyze_product(os, product) ==
    IF product = None THEN Raise("AttributeError")
    ELSE LET sold == reduce_accumulate_sales(product, os, <<0, 0>>)
         IN  Return([product_id |-> product.id,
                     title |-> product.title,
                     price |-> product.price,
                     quantity_sold |-> sold[1],
                     revenue |-> sold[2],
                     roi |-> IF product.price > 0
                             THEN Ratio(sold[2], product.price)
                             ELSE Ratio(0, 1)])

\* where sorted(..., key=lambda x: x["revenue"], reverse=True) puts x among
\* results already in descending order of revenue (the sort is stable)
RECURSIVE insert_by_revenue(_, _)
insert_by_revenue(sorted, x) ==
    IF sorted = <<>> THEN <<x>>
    ELSE IF Head(sorted).revenue >= x.revenue
         THEN <<Head(sorted)>> \o insert_by_revenue(Tail(sorted), x)
         ELSE <<x>> \o sorted

\* sorted(results, key=lambda x: x["revenue"], reverse=True)
RECURSIVE sorted_by_revenue_reverse(_, _)
sorted_by_revenue_reverse(results, sorted) ==
    IF results = <<>> THEN sorted
    ELSE sorted_by_revenue_reverse(Tail(results), insert_by_revenue(sorted, Head(results)))

\* customer_segmentation_async: segment_user(user), after its sleep
segment_user(os, user) ==
    IF user = None THEN Raise("AttributeError")
    ELSE LET user_orders == SelectSeq(os, LAMBDA o : o.user_id = user.id /\ o.status = "paid")
             order_count == Len(user_orders)
             total_spent == reduce_total_or_raise(user_orders)
         IN  IF total_spent.raised # "" THEN total_spent
             ELSE Return(<< IF order_count = 0 THEN "inactive"
                            ELSE IF order_count = 1 THEN "one_time"
                            ELSE IF total_spent.value > 500000 THEN "vip"
                            ELSE "regular",
                            user.id >>)

\* group_by_segment putting the user id in front of the segment's list
group_by_segment_prepending(acc, item) ==
    dict_set(acc, item[1], <<item[2]>> \o dict_get(acc, item[1], <<>>))

\* customer_segmentation_async: group_by_segment(acc, item)
group_by_segment(acc, item) ==
    dict_set(acc, item[1], dict_get(acc, item[1], <<>>) \o <<item[2]>>)

\* reduce(group_by_segment, results, acc)
RECURSIVE reduce_group_by_segment(_, _)
reduce_group_by_segment(results, acc) ==
    IF results = <<>> THEN acc
    ELSE reduce_group_by_segment(Tail(results), group_by_segment(acc, Head(results)))

\* batch_process_orders: process_batch(batch), after its sleep
process_batch(batch) ==
    LET paid == SelectSeq(batch, LAMBDA o : o.status = "paid")
        refunded == SelectSeq(batch, LAMBDA o : o.status = "refunded")
        revenue == reduce_total_or_raise(paid)
    IN  IF revenue.raised # "" THEN revenue
        ELSE Return([total |-> Len(batch),
                     paid |-> Len(paid),
                     refunded |-> Len(refunded),
                     revenue |-> revenue.value])

\* orders[i : i + batch_size], i counted from 0
batch_at(os, i, batch_size) ==
    SubSeq(os, i + 1, IF i + batch_size < Len(os) THEN i + batch_size ELSE Len(os))

\* list(range(i, stop, step)), for step >= 1
RECURSIVE range(_, _, _)
range(i, stop, step) ==
    IF i >= stop THEN <<>> ELSE <<i>> \o range(i + step, stop, step)

\* the batches without the last one when it is not full
batches_of_full_only(os, batch_size) ==
    [n \in 1..(Len(os) \div batch_size) |-> batch_at(os, (n - 1) * batch_size, batch_size)]

\* [orders[i : i + batch_size] for i in range(0, len(orders), batch_size)]
batches_of(os, batch_size) ==
    LET starts == range(0, Len(os), batch_size)
    IN  [n \in DOMAIN starts |-> batch_at(os, starts[n], batch_size)]

\* the return statement of batch_process_orders
batch_totals(results) ==
    [total_orders |-> sum([i \in DOMAIN results |-> results[i].total]),
     paid_orders |-> sum([i \in DOMAIN results |-> results[i].paid]),
     refunded_orders |-> sum([i \in DOMAIN results |-> results[i].refunded]),
     total_revenue |-> sum([i \in DOMAIN results |-> results[i].revenue]),
     batches_processed |-> Len(results)]
-----------------------------------------------------------------------------
(* core/async_ops.py: the fan-out wrappers and asyncio.gather              *)
(*                                                                         *)
(* A job is one call of a wrapper with its arguments.  The wrapper builds  *)
(* one coroutine per unit and awaits asyncio.gather over them: every unit  *)
(* sleeps, the sleeps end in any order, a unit runs from its wake-up to    *)
(* its return or its exception without giving up control, and the wrapper  *)
(* continues after the await once gather has a result (every unit done)    *)
(* or an exception (the first unit that raised).                           *)

SalesByDay == "sales_by_day_async"
SalesByUser == "sales_by_user_async"
ProductPerformance == "product_performance_async"
CustomerSegmentation == "customer_segmentation_async"
BatchProcess == "batch_process_orders"
Pipeline == "comprehensive_analysis_pipeline"

\* one record shape for each wrapper, named after its parameters
SalesByDayJob(os, days) == [fn |-> SalesByDay, orders |-> os, days |-> days]
SalesByUserJob(os, user_ids) == [fn |-> SalesByUser, orders |-> os, user_ids |-> user_ids]
ProductPerformanceJob(os, ps) == [fn |-> ProductPerformance, orders |-> os, products |-> ps]
CustomerSegmentationJob(os, us) == [fn |-> CustomerSegmentation, orders |-> os, users |-> us]
BatchProcessJob(os, batch_size) == [fn |-> BatchProcess, orders |-> os, batch_size |-> batch_size]

PipelineJob(os, ps, us) ==
    [fn |-> Pipeline, orders |-> os, products |-> ps, users |-> us]

\* the arguments of the coroutines a wrapper hands to gather, in order
units_of(j) ==
    CASE j.fn = SalesByDay -> j.days
      [] j.fn = SalesByUser -> j.user_ids
      [] j.fn = ProductPerformance -> j.products
      [] j.fn = CustomerSegmentation -> j.users
      [] j.fn = BatchProcess -> batches_of(j.orders, j.batch_size)

\* what one coroutine of a wrapper does after its sleep
run_unit(j, unit) ==
    CASE j.fn = SalesByDay -> calculate_day_sales(j.orders, unit)
      [] j.fn = SalesByUser -> calculate_user_sales(j.orders, unit)
      [] j.fn = ProductPerformance -> analyze_product(j.orders, unit)
      [] j.fn = CustomerSegmentation -> segment_user(j.orders, unit)
      [] j.fn = BatchProcess -> process_batch(unit)

\* what a wrapper returns from the list gather gave it
merge_results(j, results) ==
    CASE j.fn = SalesByDay -> dict_of(results, <<>>)
      [] j.fn = SalesByUser -> dict_of(results, <<>>)
      [] j.fn = ProductPerformance -> sorted_by_revenue_reverse(results, <<>>)
      [] j.fn = CustomerSegmentation -> reduce_group_by_segment(results, <<>>)
      [] j.fn = BatchProcess -> batch_totals(results)

\* await wrapper(...) run to its end: the value it returns, or the
\* exception of a unit (every unit raises the same one)
awaited(j) ==
    LET units == units_of(j)
        outs == [i \in DOMAIN units |-> run_unit(j, units[i])]
    IN  IF \E i \in DOMAIN outs : outs[i].raised # ""
        THEN Raise(outs[CHOOSE i \in DOMAIN outs : outs[i].raised # ""].raised)
        ELSE Return(merge_results(j, [i \in DOMAIN outs |-> outs[i].value]))

\* a < b for two date strings
RECURSIVE str_less(_, _)
str_less(a, b) ==
    IF b = <<>> THEN FALSE
    ELSE IF a = <<>> THEN TRUE
    ELSE IF Head(a) # Head(b) THEN Head(a) < Head(b)
    ELSE str_less(Tail(a), Tail(b))

\* sorted(S) of a set of date strings
RECURSIVE sorted_set(_)
sorted_set(S) ==
    IF S = {} THEN <<>>
    ELSE LET least == CHOOSE a \in S : \A b \in S \ {a} : str_less(a, b)
         IN  <<least>> \o sorted_set(S \ {least})

\* seq[-k:], for k >= 1
slice_last(seq, k) ==
    SubSeq(seq, IF Len(seq) > k THEN Len(seq) - k + 1 ELSE 1, Len(seq))

\* comprehensive_analysis_pipeline up to its gather: the five analyses it
\* hands over, or the exception of [u.id for u in users[:20]]
pipeline_analyses(j) ==
    LET days == slice_last(sorted_set({slice_to(j.orders[i].ts, 3) : i \in DOMAIN j.orders}), 7)
        top_users == slice_to(j.users, 20)
    IN  IF \E i \in DOMAIN top_users : top_users[i] = None
        THEN Raise("AttributeError")
        ELSE Return(<< SalesByDayJob(j.orders, days),
                       SalesByUserJob(j.orders, [i \in DOMAIN top_users |-> top_users[i].id]),
                       ProductPerformanceJob(j.orders, slice_to(j.products, 30)),
                       CustomerSegmentationJob(j.orders, j.users),
                       BatchProcessJob(j.orders, 10) >>)

\* the return statement of comprehensive_analysis_pipeline
pipeline_result(results) ==
    [sales_by_day |-> results[1],
     sales_by_user |-> results[2],
     top_products |-> slice_to(results[3], 10),
     customer_segments |-> results[4],
     batch_statistics |-> results[5],
     analysis_complete |-> TRUE]

\* the code before the gather of a job: the coroutines, or an exception
coroutines(j) ==
    IF j.fn = Pipeline THEN pipeline_analyses(j) ELSE Return(units_of(j))

\* one coroutine of the gather, from its wake-up to its end
run(j, unit) ==
    IF j.fn = Pipeline THEN awaited(unit) ELSE run_unit(j, unit)

\* the code after the gather of a job
merge(j, results) ==
    IF j.fn = Pipeline THEN pipeline_result(results) ELSE merge_results(j, results)

\* the list gather gives back: one result per task, by completion
gathered_as_completed(ts, fin) == [k \in DOMAIN fin |-> ts[fin[k]].result.value]

\* the list gather gives back: one result per task, in the order the
\* coroutines were handed over
gathered(ts, fin) == [i \in DOMAIN ts |-> ts[i].result.value]

\* gather has an exception as soon as one task raised
gather_raised(ts, fin) == \E i \in DOMAIN ts : ts[i].done /\ ts[i].result.raised # ""

\* the await giving back the results of the tasks that returned, instead
\* of raising
first_exception_swallowed(ts, fin) ==
    LET returned == SelectSeq(fin, LAMBDA i : ts[i].result.raised = "")
    IN  Return([k \in DOMAIN returned |-> ts[returned[k]].result.value])

\* the exception gather raises: that of the first task that raised
first_exception(ts, fin) ==
    ts[fin[CHOOSE k \in DOMAIN fin :
               /\ ts[fin[k]].result.raised # ""
               /\ \A m \in 1..(k - 1) : ts[fin[m]].result.raised = ""]].result

Task(unit) == [unit |-> unit, done |-> FALSE, result |-> None]

\* await wrapper(...): the wrapper runs up to its await of gather
Await(j) ==
    /\ job = None
    /\ job' = j
    /\ finished' = <<>>
    /\ LET cs == coroutines(j)
       IN  IF cs.raised # ""
           THEN tasks' = <<>> /\ outcome' = cs
           ELSE /\ tasks' = [i \in DOMAIN cs.value |-> Task(cs.value[i])]
                /\ outcome' = None
    /\ UNCHANGED <<coreVars, categoryVars, busVars, ftypesVars>>

\* the sleep of task i ends and the task runs to its return or exception
Wake(i) ==
    /\ job # None
    /\ ~tasks[i].done
    /\ tasks' = [tasks EXCEPT ![i] = [unit |-> @.unit, done |-> TRUE,
                                      result |-> run(job, @.unit)]]
    /\ finished' = Append(finished, i)
    /\ UNCHANGED <<coreVars, categoryVars, busVars, ftypesVars, job, outcome>>

\* every task returned: the wrapper continues after its await and returns
Merge ==
    /\ job # None
    /\ outcome = None
    /\ \A i \in DOMAIN tasks : tasks[i].done
    /\ ~gather_raised(tasks, finished)
    /\ outcome' = Return(merge(job, gathered(tasks, finished)))
    /\ UNCHANGED <<coreVars, categoryVars, busVars, ftypesVars, job, tasks, finished>>

\* a task raised: the await raises its exception in the wrapper, which
\* has no handler
Propagate ==
    /\ job # None
    /\ outcome = None
    /\ gather_raised(tasks, finished)
    /\ outcome' = first_exception(tasks, finished)
    /\ UNCHANGED <<coreVars, categoryVars, busVars, ftypesVars, job, tasks, finished>>

(* the inputs of the fan-out machine *)

MaxUnits == 3       \* most coroutines handed to one gather of a wrapper

Day1 == <<2025, 6, 22>>
Day2 == <<2025, 6, 23>>

AsyncOrder1 == Order("o1", "u1", <<<<"p1", 1>>, <<"p2", 2>>>>, 250000, Day1 \o <<10>>, "paid")
AsyncOrder2 == Order("o2", "u1", <<<<"p2", 1>>>>, 300000, Day2 \o <<9>>, "paid")
AsyncOrder3 == Order("o3", "u2", <<<<"p1", 3>>>>, 100, Day1 \o <<11>>, "refunded")

\* a paid entry of the order list with no total attribute
Untotalled ==
    [id |-> "o4", user_id |-> "u2", items |-> <<<<"p1", 1>>>>,
     ts |-> Day2 \o <<12>>, status |-> "paid"]

AsyncOrders ==
    { <<>>,
      <<AsyncOrder1>>,
      <<AsyncOrder1, AsyncOrder2>>,
      <<AsyncOrder3, AsyncOrder2, AsyncOrder1>>,
      <<AsyncOrder1, Untotalled>>,
      <<AsyncOrder2, AsyncOrder3, Untotalled>> }

AsyncProducts ==
    { Product("p1", "Laptop", 100, "c1", <<>>),
      Product("p2", "Phone", 300, "c1", <<>>),
      None }

AsyncUsers ==
    { User("u1", "Alice", "regular"), User("u2", "Bob", "vip"), None }

Jobs ==
    UNION {
        {SalesByDayJob(os, days) : days \in SeqUpTo({Day1, Day2, <<2025>>}, MaxUnits)}
        \cup {SalesByUserJob(os, user_ids) : user_ids \in SeqUpTo({"u1", "u2"}, MaxUnits)}
        \cup {ProductPerformanceJob(os, ps) : ps \in SeqUpTo(AsyncProducts, MaxUnits)}
        \cup {CustomerSegmentationJob(os, us) : us \in SeqUpTo(AsyncUsers, MaxUnits)}
        \cup {BatchProcessJob(os, batch_size) : batch_size \in 1..MaxUnits}
        \cup {PipelineJob(os, ps, us) :
                 ps \in SeqUpTo(AsyncProducts, 1),
                 us \in {<<>>, <<User("u1", "Alice", "regular")>>,
                         <<User("u2", "Bob", "vip"), User("u1", "Alice", "regular")>>,
                         <<User("u1", "Alice", "regular"), None>>}} :
        os \in AsyncOrders }

InitAsync ==
    /\ cart = Cart("c1", "u1", <<>>)
    /\ hist = <<>>
    /\ products = <<>>
    /\ placed = <<>>
    /\ sales = None
    /\ orders = <<>>
    /\ report = <<>>
    /\ NoCategories
    /\ NoBuses
    /\ NoFtypes
    /\ NoAsync

NextAsync ==
    \/ job = None /\ \E j \in Jobs : Await(j)
    \/ \E i \in DOMAIN tasks : Wake(i)
    \/ Merge
    \/ Propagate

SpecAsync == InitAsync /\ [][NextAsync]_vars
-----------------------------------------------------------------------------
(* Claims about the fan-out machine *)

Returned == outcome # None /\ outcome.raised = ""
Raised == outcome # None /\ outcome.raised # ""
UnitRaised == \E i \in DOMAIN tasks : tasks[i].done /\ tasks[i].result.raised # ""

\* the merge of the units' results taken in the order of the inputs
InInputOrder(j) ==
    LET cs == coroutines(j).value
    IN  merge(j, [i \in DOMAIN cs |-> run(j, cs[i]).value])

\* C21: a wrapper returns only once every unit of work is done, and what it
\* returns is the merge of the units' results in input order, whatever the
\* order the units completed in.
C21_MergeAfterAll ==
    Returned =>
        /\ \A i \in DOMAIN tasks : tasks[i].done
        /\ Len(tasks) = Len(coroutines(job).value)
        /\ outcome.value = InInputOrder(job)

\* a wrapper returned although its units completed out of input order, on
\* inputs where the results in completion order differ
C21_Witness ==
    /\ Returned
    /\ job.fn # Pipeline
    /\ \E k \in 1..(Len(finished) - 1) : finished[k] > finished[k + 1]
    /\ gathered_as_completed(tasks, finished) # gathered(tasks, finished)

\* the pipeline returned although its analyses completed out of input order
C21_WitnessPipeline ==
    /\ Returned
    /\ job.fn = Pipeline
    /\ finished[1] = 5
    /\ finished[5] = 1

\* C22: once a unit of work has raised, the await of the wrapper never
\* gives a result: its only continuation is to raise, and what it raises is
\* the exception of the first unit that raised.  The same holds for the
\* pipeline and its five analyses.
C22_FailurePropagates ==
    /\ UnitRaised => ~Returned
    /\ (UnitRaised /\ ~Raised) => (ENABLED Propagate /\ ~ENABLED Merge)
    /\ (UnitRaised /\ Raised) =>
           \E i \in DOMAIN tasks :
               /\ tasks[i].done
               /\ tasks[i].result = outcome
               /\ \A k \in DOMAIN finished :
                      tasks[finished[k]].result.raised # "" =>
                          \E m \in 1..k : finished[m] = i

\* a unit raised while another one had returned and a third was still
\* asleep, and the wrapper raised
C22_Witness ==
    /\ Raised
    /\ job.fn # Pipeline
    /\ \E i \in DOMAIN tasks : tasks[i].done /\ tasks[i].result.raised = ""
    /\ \E i \in DOMAIN tasks : ~tasks[i].done
    /\ UnitRaised

\* one analysis of the pipeline raised after others had returned, and the
\* pipeline raised
C22_WitnessPipeline ==
    /\ Raised
    /\ job.fn = Pipeline
    /\ UnitRaised
    /\ Len(finished) >= 2
    /\ tasks[finished[1]].result.raised = ""

-----------------------------------------------------------------------------
(* core/async_ops.py: the wrappers awaited to their end                    *)
(*                                                                         *)
(* What a wrapper returns does not depend on the order its units complete  *)
(* in (C21), so here one step is one whole await of a wrapper, on larger   *)
(* sets of well-formed arguments.                                          *)

MaxBatchOrders == 4     \* longest order list handed to batch_process_orders
MaxBatchSize == 5       \* largest batch_size
MaxSegmentOrders == 3   \* longest order list handed to customer_segmentation_async

BatchOrderInputs ==
    { Order("o", "u1", <<>>, 3, Day1 \o <<10>>, "paid"),
      Order("o", "u2", <<>>, 4, Day2 \o <<10>>, "paid"),
      Order("o", "u1", <<>>, 5, Day1 \o <<10>>, "refunded"),
      Order("o", "u2", <<>>, 7, Day2 \o <<10>>, "cancelled") }

SegmentOrderInputs ==
    { Order("o", "u1", <<>>, 250000, Day1 \o <<10>>, "paid"),
      Order("o", "u1", <<>>, 300000, Day2 \o <<10>>, "paid"),
      Order("o", "u2", <<>>, 250000, Day1 \o <<10>>, "paid"),
      Order("o", "u2", <<>>, 300000, Day2 \o <<10>>, "refunded") }

SegmentUsers ==
    { User("u1", "Alice", "regular"), User("u2", "Bob", "vip"),
      User("u3", "Carol", "regular") }

\* await wrapper(...), from the call to its return or exception
AwaitToEnd(j) ==
    /\ job = None
    /\ job' = j
    /\ outcome' = awaited(j)
    /\ UNCHANGED <<coreVars, categoryVars, busVars, ftypesVars, tasks, finished>>

BatchProcessOrders(os, batch_size) == AwaitToEnd(BatchProcessJob(os, batch_size))

ProductPerformanceAsync(os, ps) == AwaitToEnd(ProductPerformanceJob(os, ps))

CustomerSegmentationAsync(os, us) == AwaitToEnd(CustomerSegmentationJob(os, us))

\* the arguments are drawn only while no wrapper has been awaited
NextAwaited ==
    \/ /\ job = None
       /\ \E os \in SeqUpTo(BatchOrderInputs, MaxBatchOrders), batch_size \in 1..MaxBatchSize :
              BatchProcessOrders(os, batch_size)
    \/ /\ job = None
       /\ \E os \in LineOrderInputs(MaxLineOrders, MaxLines), ps \in {<<>>, ReportCatalog} :
              ProductPerformanceAsync(os, ps)
    \/ /\ job = None
       /\ \E os \in SeqUpTo(SegmentOrderInputs, MaxSegmentOrders), us \in SeqUpTo(SegmentUsers, MaxUnits) :
              CustomerSegmentationAsync(os, us)

SpecAwaited == InitAsync /\ [][NextAwaited]_vars

-----------------------------------------------------------------------------
(* Claims about the values the wrappers return *)

AwaitedReturn(fn) == Returned /\ job.fn = fn

\* the least number of batches of batch_size that hold n orders
Ceil(n, batch_size) ==
    CHOOSE b \in 0..n : b * batch_size >= n /\ (b = 0 \/ (b - 1) * batch_size < n)

\* C23: batch_process_orders counts every order once, whatever batch_size
\* >= 1: its totals are those of sales_summary and it processes
\* ceil(len(orders) / batch_size) batches.
C23_BatchTotals ==
    AwaitedReturn(BatchProcess) =>
        LET summary == sales_summary(job.orders)
            stats == outcome.value
        IN  /\ stats.total_orders = Len(job.orders)
            /\ stats.paid_orders = summary.paid_orders
            /\ stats.refunded_orders = summary.refunded_orders
            /\ stats.total_revenue = summary.total_revenue
            /\ stats.batches_processed = Ceil(Len(job.orders), job.batch_size)

\* orders of all three statuses in several batches, the last one not full
C23_Witness ==
    /\ AwaitedReturn(BatchProcess)
    /\ outcome.value.batches_processed >= 2
    /\ Len(job.orders) % job.batch_size # 0
    /\ outcome.value.paid_orders >= 2
    /\ outcome.value.refunded_orders >= 1
    /\ outcome.value.total_orders > outcome.value.paid_orders + outcome.value.refunded_orders

\* one batch, batch_size larger than the order list
C23_WitnessOneBatch ==
    /\ AwaitedReturn(BatchProcess)
    /\ job.batch_size > Len(job.orders)
    /\ outcome.value.batches_processed = 1
    /\ outcome.value.total_revenue > 0

\* the line items of the paid orders of os, as <<order index, line index>>
PaidLinesOf(os) ==
    UNION {{<<i, k>> : k \in DOMAIN os[i].items} : i \in {n \in DOMAIN os : os[n].status = "paid"}}

RECURSIVE SumQtyOf(_, _, _)
SumQtyOf(os, pid, lines) ==
    IF lines = {} THEN 0
    ELSE LET l == CHOOSE x \in lines : TRUE
         IN  (IF os[l[1]].items[l[2]][1] = pid THEN os[l[1]].items[l[2]][2] ELSE 0)
             + SumQtyOf(os, pid, lines \ {l})

\* C27: product_performance_async reports for every product the quantity
\* summed over all line items of paid orders that name it, revenue =
\* quantity_sold * price, and the entries in descending order of revenue.
C27_ProductPerformance ==
    AwaitedReturn(ProductPerformance) =>
        LET entries == outcome.value
        IN  /\ Len(entries) = Len(job.products)
            /\ \A n \in DOMAIN entries :
                   /\ entries[n].quantity_sold =
                          SumQtyOf(job.orders, entries[n].product_id, PaidLinesOf(job.orders))
                   /\ entries[n].revenue = entries[n].quantity_sold * entries[n].price
                   /\ n < Len(entries) => entries[n].revenue >= entries[n + 1].revenue

\* what holds of product_performance_async: the quantity of the first line
\* item naming the product in each paid order
C27_FirstLineOnly ==
    AwaitedReturn(ProductPerformance) =>
        \A n \in DOMAIN outcome.value :
            LET entry == outcome.value[n]
                firsts == {l \in PaidLinesOf(job.orders) :
                              /\ job.orders[l[1]].items[l[2]][1] = entry.product_id
                              /\ \A k \in 1..(l[2] - 1) :
                                     job.orders[l[1]].items[k][1] # entry.product_id}
            IN  /\ entry.quantity_sold = SumQtyOf(job.orders, entry.product_id, firsts)
                /\ entry.revenue = entry.quantity_sold * entry.price
                /\ n < Len(outcome.value) => entry.revenue >= outcome.value[n + 1].revenue

PaidOrdersOfUser(os, id) == SelectSeq(os, LAMBDA o : o.user_id = id /\ o.status = "paid")

\* the segment the thresholds give a user id
SegmentOf(os, id) ==
    LET paid == PaidOrdersOfUser(os, id)
    IN  IF Len(paid) = 0 THEN "inactive"
        ELSE IF Len(paid) = 1 THEN "one_time"
        ELSE IF Len(paid) >= 2 /\ reduce_totals(paid, 0) > 500000 THEN "vip"
        ELSE "regular"

UniqueUserIds(us) == \A a, b \in DOMAIN us : us[a].id = us[b].id => a = b

\* how often id is in the segment lists of a segmentation
TimesListed(segments, id) ==
    Cardinality({<<s, n>> \in UNION {{<<x, y>> : y \in DOMAIN segments[x][2]} : x \in DOMAIN segments} :
                    segments[s][2][n] = id})

\* C29: for users with unique ids customer_segmentation_async lists every
\* user id exactly once, under the segment its paid orders give it
\* (inactive: none, one_time: one, vip: at least two with more than 500000
\* in total, regular otherwise), each segment in the input order of its
\* users.
C29_Segmentation ==
    (AwaitedReturn(CustomerSegmentation) /\ UniqueUserIds(job.users)) =>
        LET segments == outcome.value
            ids == [i \in DOMAIN job.users |-> job.users[i].id]
        IN  /\ \A i \in DOMAIN ids : TimesListed(segments, ids[i]) = 1
            /\ \A s \in DOMAIN segments :
                   /\ segments[s][1] \in {"inactive", "one_time", "vip", "regular"}
                   /\ \A t \in DOMAIN segments : segments[s][1] = segments[t][1] => s = t
                   /\ segments[s][2] # <<>>
                   /\ segments[s][2] =
                          SelectSeq(ids, LAMBDA id : SegmentOf(job.orders, id) = segments[s][1])

\* three users in three segments, a vip among them
C29_Witness ==
    /\ AwaitedReturn(CustomerSegmentation)
    /\ UniqueUserIds(job.users)
    /\ Len(job.users) = 3
    /\ dict_has(outcome.value, "vip")
    /\ dict_has(outcome.value, "inactive")
    /\ Len(outcome.value) = 3

\* a user whose paid orders total exactly 500000 is regular, not vip
C29_WitnessRegular ==
    /\ AwaitedReturn(CustomerSegmentation)
    /\ UniqueUserIds(job.users)
    /\ dict_has(outcome.value, "regular")
    /\ \E i \in DOMAIN job.users :
           reduce_totals(PaidOrdersOfUser(job.orders, job.users[i].id), 0) = 500000

\* two users of one segment, listed in input order although their orders
\* come in the other order
C29_WitnessOrder ==
    /\ AwaitedReturn(CustomerSegmentation)
    /\ UniqueUserIds(job.users)
    /\ \E s \in DOMAIN outcome.value : outcome.value[s] = <<"one_time", <<"u2", "u1">>>>
    /\ Len(job.orders) >= 2
    /\ job.orders[1].user_id = "u1"

-----------------------------------------------------------------------------
(* core/lazy.py, core/compose.py, core/service.py and                      *)
(* cart_abandonment_rate of Analytics_Service/report.py                    *)
(*                                                                         *)
(* A value handed through compose is a tuple of orders or an integer, and  *)
(* the functions composed tell the two apart: it is PyTuple(seq) or        *)
(* PyInt(n).                                                               *)

PyTuple(seq) == [tuple |-> seq]

\* totals[order.user_id] += order.total, totals a defaultdict(int)
add_order_total(totals, order) ==
    dict_set(totals, order.user_id, dict_get(totals, order.user_id, 0) + order.total)

\* the for loop of lazy_top_customers
RECURSIVE reduce_add_order_total(_, _)
reduce_add_order_total(os, totals) ==
    IF os = <<>> THEN totals
    ELSE reduce_add_order_total(Tail(os), add_order_total(totals, Head(os)))

\* tuple(lazy_top_customers(orders, k))
lazy_top_customers(os, k) ==
    slice_to(sorted_by_value_reverse(reduce_add_order_total(os, <<>>), <<>>), k)

\* tuple(iter_orders_by_day(orders, day))
iter_orders_by_day(os, day) == SelectSeq(os, LAMBDA order : startswith(order.ts, day))

\* one of the functions daily_report composes, called on x: iterating over
\* an integer raises TypeError
call(fn, x) ==
    IF ~hasattr(x, "tuple") THEN Raise("TypeError")
    ELSE CASE fn = "filter_paid" -> Return(PyTuple(SelectSeq(x.tuple, LAMBDA o : o.status = "paid")))
           [] fn = "total_sales" -> Return(PyInt(total_sales(x.tuple)))

\* compose(*funcs)(x): compose(f, g, h)(x) == f(g(h(x)))
RECURSIVE compose(_, _)
compose(funcs, x) ==
    IF Len(funcs) = 1 THEN call(funcs[1], x)
    ELSE LET inner == compose(Tail(funcs), x)
         IN  IF inner.raised # "" THEN inner ELSE call(Head(funcs), inner.value)

\* AnalyticsService.daily_report(day), self.orders.orders being os
daily_report(os, day) ==
    LET day_orders == iter_orders_by_day(os, day)
        day_sales == compose(<<"filter_paid", "total_sales">>, PyTuple(day_orders))
    IN  IF day_sales.raised # "" THEN day_sales
        ELSE Return([day |-> day,
                     orders |-> day_orders,
                     total_sales |-> day_sales.value,
                     order_count |-> Len(day_orders),
                     top_customers |-> lazy_top_customers(os, 3)])

\* round(num / den * 100, 2) in hundredths, to the nearest
round_percent(num, den) == (2 * num * 10000 + den) \div (2 * den)

\* cart_abandonment_rate(carts, orders); abandonment_rate in hundredths
cart_abandonment_rate(carts, os) ==
    LET completed_orders == Len(SelectSeq(os, LAMBDA o : o.status = "paid"))
        total_carts == IF carts # <<>> THEN Len(carts) ELSE completed_orders
        abandonment == IF total_carts > 0
                       THEN round_percent(total_carts - completed_orders, total_carts)
                       ELSE 0
    IN  [total_carts |-> total_carts,
         completed_orders |-> completed_orders,
         abandonment_rate |-> abandonment]

(* The services called on an order tuple *)

MaxServiceOrders == 3   \* longest order tuple of the OrderService
MaxCarts == 2           \* most carts handed to cart_abandonment_rate

ServiceOrderInputs ==
    {Order("o", u, <<>>, 3, Day1 \o <<10>>, status) : u \in USERS, status \in {"paid", "refunded"}}
    \cup {Order("o", u, <<>>, 4, Day2 \o <<9>>, status) : u \in USERS, status \in {"paid", "refunded"}}

ServiceDays == {Day1, Day2, <<2025>>, <<2024, 1, 1>>}

NoCall == [fn |-> "", arg |-> <<>>, ret |-> <<>>]

\* one function is called on the orders
ServiceCalled(fn, arg, ret) ==
    /\ report = NoCall
    /\ report' = [fn |-> fn, arg |-> arg, ret |-> ret]
    /\ UNCHANGED <<cart, hist, products, placed, sales, orders, categoryVars, busVars, ftypesVars, asyncVars>>

LazyTopCustomers(k) == ServiceCalled("lazy_top_customers", PyInt(k), lazy_top_customers(orders, k))

DailyReport(day) == ServiceCalled("daily_report", day, daily_report(orders, day))

CartAbandonmentRate(carts) ==
    ServiceCalled("cart_abandonment_rate", carts, cart_abandonment_rate(carts, orders))

InitService ==
    /\ cart = Cart("c1", "u1", <<>>)
    /\ hist = <<>>
    /\ products = <<>>
    /\ placed = <<>>
    /\ sales = None
    /\ orders \in SeqUpTo(ServiceOrderInputs, MaxServiceOrders)
    /\ report = NoCall
    /\ NoCategories
    /\ NoBuses
    /\ NoFtypes
    /\ NoAsync

NextService ==
    \/ \E k \in 0..MaxK : LazyTopCustomers(k)
    \/ \E day \in ServiceDays : DailyReport(day)
    \/ \E carts \in SeqUpTo({Cart("c1", "u1", <<>>), Cart("c2", "u2", <<<<"p1", 1>>>>)}, MaxCarts) :
           CartAbandonmentRate(carts)

SpecService == InitService /\ [][NextService]_vars

-----------------------------------------------------------------------------
(* Claims about the services *)

\* C24: lazy_top_customers(orders, k), k >= 0, yields the pairs of the eager
\* ranking: the per-user totals over paid orders only, by total descending
\* with ties in first-seen order, cut to k.
C24_LazyTopCustomers ==
    report.fn = "lazy_top_customers" =>
        report.ret = slice_to(sorted_by_value_reverse(customer_lifetime_value(orders), <<>>),
                              report.arg.int)

\* what holds of lazy_top_customers: the same ranking over the totals of
\* the orders of every status
C24_EveryStatus ==
    report.fn = "lazy_top_customers" =>
        LET every == [i \in DOMAIN orders |-> [orders[i] EXCEPT !.status = "paid"]]
        IN  report.ret = slice_to(sorted_by_value_reverse(customer_lifetime_value(every), <<>>),
                                  report.arg.int)

\* C25: daily_report(day) returns, without raising, a mapping with the
\* orders of the day, their number and the sum of total over the paid ones.
C25_DailyReport ==
    report.fn = "daily_report" =>
        /\ report.ret.raised = ""
        /\ report.ret.value.orders = iter_orders_by_day(orders, report.arg)
        /\ report.ret.value.order_count = Len(iter_orders_by_day(orders, report.arg))
        /\ report.ret.value.total_sales =
               PyInt(reduce_totals(SelectSeq(iter_orders_by_day(orders, report.arg), is_paid), 0))

\* what holds of daily_report: it raises TypeError for every day
C25_AlwaysRaises ==
    report.fn = "daily_report" => report.ret = Raise("TypeError")

\* C30: cart_abandonment_rate returns completed_orders <= total_carts when
\* total_carts > 0, hence a rate between 0 and 100; with no carts
\* total_carts = completed_orders and the rate is 0.
C30_CartAbandonment ==
    report.fn = "cart_abandonment_rate" =>
        /\ report.ret.total_carts > 0 =>
               /\ report.ret.completed_orders <= report.ret.total_carts
               /\ report.ret.abandonment_rate >= 0
               /\ report.ret.abandonment_rate <= 10000
        /\ report.arg = <<>> =>
               /\ report.ret.total_carts = report.ret.completed_orders
               /\ report.ret.abandonment_rate = 0

\* what holds of cart_abandonment_rate: the rate is at most 100, and with no
\* carts total_carts = completed_orders and the rate is 0
C30_AtMostHundred ==
    report.fn = "cart_abandonment_rate" =>
        /\ report.ret.abandonment_rate <= 10000
        /\ report.ret.completed_orders <= report.ret.total_carts =>
               report.ret.abandonment_rate >= 0
        /\ report.arg = <<>> =>
               /\ report.ret.total_carts = report.ret.completed_orders
               /\ report.ret.abandonment_rate = 0

-----------------------------------------------------------------------------
(* core/frp.py: events published one after another on the shop bus         *)

MaxPublished == 3   \* events published in one behaviour

Published(events) == [fn |-> "published", events |-> events]

\* state = bus.publish(event, state) on the shop bus, the event logged
PublishNext(event) ==
    /\ Len(published.events) < MaxPublished
    /\ shop_state' = publish(buses[1], event, shop_state)
    /\ published' = Published(Append(published.events, event))
    /\ UNCHANGED <<coreVars, categoryVars, buses, ftypesVars, asyncVars>>

PublishAddToCart(product_id, qty) ==
    PublishNext(Event("e", "2025-09-15T12:00:00", "ADD_TO_CART",
                      [cart_id |-> "c1", product_id |-> product_id, qty |-> qty]))

PublishRemove(product_id) ==
    PublishNext(Event("e", "2025-09-15T12:30:00", "REMOVE",
                      [cart_id |-> "c1", product_id |-> product_id]))

PublishCheckout(order_id, user_id, total) ==
    PublishNext(Event("e", "2025-09-15T13:00:00", "CHECKOUT",
                      [order_id |-> order_id, user_id |-> user_id, total |-> total]))

PublishRefund(order_id, amount) ==
    PublishNext(Event("e", "2025-09-15T14:00:00", "REFUND",
                      [order_id |-> order_id, amount |-> amount]))

InitPublished ==
    /\ cart = Cart("c1", "u1", <<>>)
    /\ hist = <<>>
    /\ products = <<>>
    /\ placed = <<>>
    /\ sales = None
    /\ orders = <<>>
    /\ report = <<>>
    /\ NoCategories
    /\ buses = <<create_shop_event_bus>>
    /\ shop_state = initial_state
    /\ published = Published(<<>>)
    /\ NoFtypes
    /\ NoAsync

NextPublished ==
    \/ \E product_id \in {"p1", "p2"}, qty \in QtyArgs : PublishAddToCart(product_id, qty)
    \/ \E product_id \in {"p1", "p2"} : PublishRemove(product_id)
    \/ \E o \in {<<"o1", "u1", 30000>>, <<"o2", "u2", 5000>>} : PublishCheckout(o[1], o[2], o[3])
    \/ \E r \in {<<"o1", 20000>>, <<"o2", 5000>>} : PublishRefund(r[1], r[2])

SpecPublished == InitPublished /\ [][NextPublished]_vars

-----------------------------------------------------------------------------
(* Claims about the states reached by publishing *)

EventsNamed(name) == SelectSeq(published.events, LAMBDA e : e.name = name)

\* C26: in every state reached from initial_state() by publishing on the
\* shop bus, total_revenue is the sum of total over current_sales,
\* total_refunded the sum of amount over refunds, and current_sales and
\* refunds hold one record for each CHECKOUT and REFUND event published,
\* in publish order.
C26_Totals ==
    LET current_sales == shop_state.current_sales
        refunds == shop_state.refunds
        checkouts == EventsNamed("CHECKOUT")
        refunded == EventsNamed("REFUND")
    IN  /\ shop_state.total_revenue = sum([i \in DOMAIN current_sales |-> current_sales[i].total])
        /\ shop_state.total_refunded = sum([i \in DOMAIN refunds |-> refunds[i].amount])
        /\ Len(current_sales) = Len(checkouts)
        /\ Len(refunds) = Len(refunded)
        /\ \A i \in DOMAIN current_sales :
               current_sales[i] = [order_id |-> checkouts[i].payload.order_id,
                                   total |-> checkouts[i].payload.total,
                                   user_id |-> checkouts[i].payload.user_id,
                                   ts |-> checkouts[i].ts]
        /\ \A i \in DOMAIN refunds :
               refunds[i] = [order_id |-> refunded[i].payload.order_id,
                             amount |-> refunded[i].payload.amount,
                             ts |-> refunded[i].ts]

\* two different checkouts and a refund have been published
C26_Witness ==
    /\ Len(shop_state.current_sales) = 2
    /\ shop_state.current_sales[1].order_id # shop_state.current_sales[2].order_id
    /\ Len(shop_state.refunds) = 1
    /\ shop_state.total_revenue = 35000
    /\ shop_state.total_refunded > 0

\* a checkout published between two cart events
C26_WitnessMixed ==
    /\ Len(published.events) = 3
    /\ published.events[1].name = "ADD_TO_CART"
    /\ published.events[2].name = "CHECKOUT"
    /\ published.events[3].name = "REMOVE"
    /\ shop_state.total_revenue > 0

\* the Cart the cart transforms give for the first n events published
RECURSIVE CartAfter(_)
CartAfter(n) ==
    IF n = 0 THEN Cart("c1", "u1", <<>>)
    ELSE LET e == published.events[n]
             c == CartAfter(n - 1)
         IN  CASE e.name = "ADD_TO_CART" -> add_to_cart(c, e.payload.product_id, e.payload.qty)
               [] e.name = "REMOVE" -> remove_from_cart(c, e.payload.product_id)
               [] OTHER -> c

\* active_carts["c1"] holds the products of the items with their quantities
Agrees(items) ==
    LET projection == get(shop_state.active_carts, "c1", <<>>)
    IN  /\ DOMAIN projection = {items[i][1] : i \in DOMAIN items}
        /\ \A i \in DOMAIN items : projection[items[i][1]] = items[i][2]

\* C28: after any sequence of ADD_TO_CART / REMOVE events on one cart id,
\* active_carts[cart_id] maps each product to the quantity it has in the
\* items of the Cart that add_to_cart / remove_from_cart give for the same
\* arguments in the same order, for every integer qty, qty <= 0 included.
C28_Projection == Agrees(CartAfter(Len(published.events)).items)

\* what holds of the projection: it agrees with the cart transforms as
\* long as every qty published is positive
C28_PositiveQty ==
    (\A n \in DOMAIN published.events :
         published.events[n].name = "ADD_TO_CART" => published.events[n].payload.qty > 0)
    => Agrees(CartAfter(Len(published.events)).items)

=============================================================================
